---- MODULE Spec2Model ----
(***************************************************************************)
(* Household behavioural-anomaly pipeline (simulation.py): the signal      *)
(* debouncer, the oven-left-on guard, the sleep-session detector, the      *)
(* candidate filter, the adaptive thresholds and the incident grouping,    *)
(* each as a state machine that runs the function's loop one sample (or    *)
(* one call) at a time, and run_pipeline_from_df, one step of the run at   *)
(* a time.                                                                 *)
(*                                                                         *)
(* Each component has its own specification; while one component runs,     *)
(* the variables of the others rest at their idle values.                  *)
(***************************************************************************)
EXTENDS Integers, Sequences, FiniteSets, TLC

VARIABLES
    \* debounce_series
    s, stable_req, on_count, off_count, state, out, deb_pc,
    \* oven_left_on_guard
    oven_t, oven_w, streak, off_streak, on_start, alerts, chatter, episode_run, lo_run,
    \* sleep_sessions_from_bed
    df_minutes, sleep_t, in_sess, s_start, sessions, sess_i, alerts_local, sleep_pc,
    \* is_candidate_anomaly
    row, adj_thr, is_candidate, cand_pc,
    \* adaptive thresholds of run_pipeline_from_df
    X, pctl, thr_by_hour, global_thr, threshold, thr_pc,
    \* group_anomaly_incidents
    df_anom, grp_i, cur, incidents, grp_out, grp_pc,
    \* run_pipeline_from_df
    df_input, save_output, household_id, pipe_pc, raised, df_local, raw_source,
    present, current_rooms, windows, win_rows, feature_rows, train_idx, pipe_X,
    guard_alerts, sleep_alerts, anomaly_incidents,
    uuid_count, pipe_alerts, out_file, returned,
    \* is_quiet_hour under a configured quiet range
    quiet_start, quiet_end, q_hour, q_ret, q_pc,
    \* infer_current_room and count_room_transitions
    rm_flags, rm_prev, rm_ret, rm_window, rm_transitions, rm_pc,
    \* steps 1 and 2 of run_pipeline_from_df on a table of raw presence
    tr_raw, tr_present, tr_prev, tr_rooms, tr_pc,
    \* IoTMLSystemLocal
    sys_mode, sys_state, sys_config, sensor_buffer, training_data, data_queue,
    sys_model, model_version, model_latest, sys_running, sys_threads, sys_elapsed,
    sys_produced, last_train,
    \* MQTTSimulator
    mq_running, mq_thread, message_queue, subscribers, mq_published, mq_calls

debVars  == << s, stable_req, on_count, off_count, state, out, deb_pc >>
ovenVars == << oven_t, oven_w, streak, off_streak, on_start, alerts, chatter, episode_run, lo_run >>
sleepVars == << df_minutes, sleep_t, in_sess, s_start, sessions, sess_i, alerts_local, sleep_pc >>
candVars == << row, adj_thr, is_candidate, cand_pc >>
thrVars  == << X, pctl, thr_by_hour, global_thr, threshold, thr_pc >>
groupVars == << df_anom, grp_i, cur, incidents, grp_out, grp_pc >>
pipeArgs == << df_input, save_output, household_id >>
pipeFrame == << df_local, raw_source, present, current_rooms >>
pipeWins == << windows, win_rows, feature_rows, train_idx, pipe_X >>
pipeOut  == << guard_alerts, sleep_alerts, anomaly_incidents, uuid_count, pipe_alerts,
               out_file, returned >>
pipeVars == << pipeArgs, pipe_pc, raised, pipeFrame, pipeWins, pipeOut >>
quietVars == << quiet_start, quiet_end, q_hour, q_ret, q_pc >>
roomVars == << rm_flags, rm_prev, rm_ret, rm_window, rm_transitions, rm_pc >>
traceVars == << tr_raw, tr_present, tr_prev, tr_rooms, tr_pc >>
sysVars  == << sys_mode, sys_state, sys_config, sensor_buffer, training_data, data_queue,
               sys_model, model_version, model_latest, sys_running, sys_threads,
               sys_elapsed, sys_produced, last_train >>
mqttVars == << mq_running, mq_thread, message_queue, subscribers, mq_published, mq_calls >>
vars     == << debVars, ovenVars, sleepVars, candVars, thrVars, groupVars, pipeVars,
              quietVars, roomVars, traceVars, sysVars, mqttVars >>

(***************************************************************************)
(* Config                                                                  *)
(***************************************************************************)
QUIET_START == 22
QUIET_END == 6
OVEN_W_THR == 300
OVEN_MIN_THR == 30
OVEN_OFF_HYST == 200
OVEN_OFF_MIN == 3
DEBOUNCE_STABLE_REQ == 2
\* ANOM_PCTL_PER_HOUR = 97.5, as parts per thousand of the quantile q = 0.975
ANOM_PCTL_PER_MILLE == 975
\* QUIET_THRESHOLD_FACTOR = 0.90, in hundredths
QUIET_THRESHOLD_FACTOR_PCT == 90
QUIET_LOW_MOTION_MAX == 30
HIGH_MOTION_THRESHOLD == 60
PRESSURE_ONLY_MOTION_MIN == 12
QUIET_TRANSITIONS_ANOMALY == 3
SLEEP_MIN_PRESS == 1
SLEEP_MIN_SESSION_MIN == 60
SLEEP_TURNOVER_THRESHOLD == 5
SLEEP_IMMOBILITY_GAP_MIN == 240
MIN_ALERT_GAP_MIN == 30
WINDOW_MIN == 15
HOP_MIN == 5
REQUIRED_COLUMNS == {"hall_motion", "kitchen_motion", "bedroom_motion", "oven_power_w"}
ROOMS == << "hall", "kitchen", "bedroom" >>
\* step4_integrated_system.py: the sensor buffer is cut to BUFFER_KEEP entries
\* when it holds more than BUFFER_MAX; _train_model wants MIN_TRAIN_SAMPLES
\* samples and MIN_TRAIN_WINDOWS windows of TRAIN_WINDOW_SIZE samples, one
\* every TRAIN_WINDOW_HOP; min_samples of the default configuration
BUFFER_MAX == 1000
BUFFER_KEEP == 500
MIN_TRAIN_SAMPLES == 20
TRAIN_WINDOW_SIZE == 10
TRAIN_WINDOW_HOP == 5
MIN_TRAIN_WINDOWS == 5
DEFAULT_MIN_SAMPLES == 50

\* A missing sample (NaN); every real sample is >= 0.
NaN == -1
\* on_start = None
None == -1

(***************************************************************************)
(* Bounds of the model                                                     *)
(***************************************************************************)
\* longest series handed to debounce_series
MaxLen == 7
\* largest stability count tried
MaxStable == 3
\* longest power series handed to oven_left_on_guard
MaxSamples == 36
\* longest 1-minute series handed to sleep_sessions_from_bed (21:00 to 08:00)
ScanLen == 660
\* most windows in one run of the threshold step
MaxWin == 4
\* most candidate windows handed to group_anomaly_incidents
MaxCand == 4
\* most rows of the short frames handed to run_pipeline_from_df
MaxRows == 26
\* longest window handed to count_room_transitions on its own
MaxTrace == 4
\* rows of the presence tables of the current-room trace
TraceRows == 6
\* most samples the sensor simulation puts on data_queue
MaxProduced == 1003
\* most samples waiting on data_queue
MaxQueue == 2
\* the training duration passes before this many samples were put, if it does
ElapseBy == 33

(***************************************************************************)
(* debounce_series                                                         *)
(***************************************************************************)
isna(v) == v = NaN

SampleVals == {0, 1, NaN}

DebounceStart == [on_count |-> 0, off_count |-> 0, state |-> 0, out |-> << >>]

\* Mutant: the commit tests are strict (count > stable_req).
DebounceBodyStrict(d, v, S) ==
    IF isna(v)
    THEN [d EXCEPT !.out = Append(@, d.state)]
    ELSE IF v = 1
    THEN LET oc == d.on_count + 1
             ns == IF d.state = 0 /\ oc > S THEN 1 ELSE d.state
         IN  [on_count |-> oc, off_count |-> 0, state |-> ns, out |-> Append(d.out, ns)]
    ELSE LET fc == d.off_count + 1
             ns == IF d.state = 1 /\ fc > S THEN 0 ELSE d.state
         IN  [on_count |-> 0, off_count |-> fc, state |-> ns, out |-> Append(d.out, ns)]

\* Mutant: a sample other than 1 does not reset on_count.
DebounceBodyNoReset(d, v, S) ==
    IF isna(v)
    THEN [d EXCEPT !.out = Append(@, d.state)]
    ELSE IF v = 1
    THEN LET oc == d.on_count + 1
             ns == IF d.state = 0 /\ oc >= S THEN 1 ELSE d.state
         IN  [on_count |-> oc, off_count |-> 0, state |-> ns, out |-> Append(d.out, ns)]
    ELSE LET fc == d.off_count + 1
             ns == IF d.state = 1 /\ fc >= S THEN 0 ELSE d.state
         IN  [on_count |-> d.on_count, off_count |-> fc, state |-> ns, out |-> Append(d.out, ns)]

\* Mutant: a missing sample counts as a vote for 0.
DebounceBodyNaNVotes(d, v, S) ==
    IF v = 1
    THEN LET oc == d.on_count + 1
             ns == IF d.state = 0 /\ oc >= S THEN 1 ELSE d.state
         IN  [on_count |-> oc, off_count |-> 0, state |-> ns, out |-> Append(d.out, ns)]
    ELSE LET fc == d.off_count + 1
             ns == IF d.state = 1 /\ fc >= S THEN 0 ELSE d.state
         IN  [on_count |-> 0, off_count |-> fc, state |-> ns, out |-> Append(d.out, ns)]

\* Mutant: a change is committed one sample early (count >= stable_req - 1).
DebounceBodyEarly(d, v, S) ==
    IF isna(v)
    THEN [d EXCEPT !.out = Append(@, d.state)]
    ELSE IF v = 1
    THEN LET oc == d.on_count + 1
             ns == IF d.state = 0 /\ oc >= S - 1 THEN 1 ELSE d.state
         IN  [on_count |-> oc, off_count |-> 0, state |-> ns, out |-> Append(d.out, ns)]
    ELSE LET fc == d.off_count + 1
             ns == IF d.state = 1 /\ fc >= S - 1 THEN 0 ELSE d.state
         IN  [on_count |-> 0, off_count |-> fc, state |-> ns, out |-> Append(d.out, ns)]

\* Mutant: a change of state is written back over the output before it.
DebounceBodyBackfill(d, v, S) ==
    IF isna(v)
    THEN [d EXCEPT !.out = Append(@, d.state)]
    ELSE LET oc == IF v = 1 THEN d.on_count + 1 ELSE 0
             fc == IF v = 1 THEN 0 ELSE d.off_count + 1
             ns == IF v = 1 THEN (IF d.state = 0 /\ oc >= S THEN 1 ELSE d.state)
                   ELSE (IF d.state = 1 /\ fc >= S THEN 0 ELSE d.state)
             po == IF ns # d.state /\ Len(d.out) > 0
                   THEN [d.out EXCEPT ![Len(d.out)] = ns] ELSE d.out
         IN  [on_count |-> oc, off_count |-> fc, state |-> ns, out |-> Append(po, ns)]

\* One iteration of "for v in s.values".
DebounceBody(d, v, S) ==
    IF isna(v)
    THEN [d EXCEPT !.out = Append(@, d.state)]
    ELSE IF v = 1
    THEN LET oc == d.on_count + 1
             ns == IF d.state = 0 /\ oc >= S THEN 1 ELSE d.state
         IN  [on_count |-> oc, off_count |-> 0, state |-> ns, out |-> Append(d.out, ns)]
    ELSE LET fc == d.off_count + 1
             ns == IF d.state = 1 /\ fc >= S THEN 0 ELSE d.state
         IN  [on_count |-> 0, off_count |-> fc, state |-> ns, out |-> Append(d.out, ns)]

RECURSIVE DebounceRange(_, _, _, _, _)
\* The loop "for v in s.values" over xs[lo..hi] from state d.  The range
\* is run in two halves, the first finished before the second starts, so
\* that a day of samples nests only as deep as the logarithm of its length.
DebounceRange(d, xs, S, lo, hi) ==
    IF lo > hi THEN d
    ELSE IF lo = hi THEN DebounceBody(d, xs[lo], S)
    ELSE LET mid  == (lo + hi) \div 2
             left == DebounceRange(d, xs, S, lo, mid)
         IN  IF left = left THEN DebounceRange(left, xs, S, mid + 1, hi) ELSE d

\* The loop "for v in s.values" from state d.
DebounceRun(d, xs, S) == DebounceRange(d, xs, S, 1, Len(xs))

\* The whole function on a finished series.
debounce_series(xs, S) == DebounceRun(DebounceStart, xs, S).out

DebInit ==
    /\ s = << >>
    /\ stable_req \in 1..MaxStable
    /\ on_count = 0
    /\ off_count = 0
    /\ state = 0
    /\ out = << >>
    /\ deb_pc = "loop"

DebIdle ==
    /\ s = << >>
    /\ stable_req = DEBOUNCE_STABLE_REQ
    /\ on_count = 0
    /\ off_count = 0
    /\ state = 0
    /\ out = << >>
    /\ deb_pc = "idle"

\* The loop reads the next sample of s (the series is drawn sample by sample).
DebounceSample ==
    /\ deb_pc = "loop"
    /\ Len(s) < MaxLen
    /\ \E v \in SampleVals :
         LET d == DebounceBody([on_count |-> on_count, off_count |-> off_count,
                                state |-> state, out |-> out], v, stable_req)
         IN  /\ s' = Append(s, v)
             /\ on_count' = d.on_count
             /\ off_count' = d.off_count
             /\ state' = d.state
             /\ out' = d.out
    /\ UNCHANGED << stable_req, deb_pc, ovenVars, sleepVars, candVars, thrVars, groupVars, pipeVars,
                    quietVars, roomVars, traceVars, sysVars, mqttVars >>

\* The series is exhausted: return pd.Series(out, index=s.index, dtype=int).
DebounceReturn ==
    /\ deb_pc = "loop"
    /\ deb_pc' = "done"
    /\ UNCHANGED << s, stable_req, on_count, off_count, state, out, ovenVars, sleepVars, candVars, thrVars, groupVars, pipeVars,
                    quietVars, roomVars, traceVars, sysVars, mqttVars >>

DebNext == DebounceSample \/ DebounceReturn

(***************************************************************************)
(* oven_left_on_guard                                                      *)
(***************************************************************************)
\* Power readings tried: below the off-threshold, on it, inside the band,
\* on the on-threshold, above it, and a missing reading.
PowerVals == {0, OVEN_OFF_HYST, 250, OVEN_W_THR, 900, NaN}

\* w > thr and w < thr of a float: both are false when w is NaN.
Above(w, thr) == ~isna(w) /\ w > thr
Below(w, thr) == ~isna(w) /\ w < thr

OvenAlert(start, end, w, n) ==
    [ts_start |-> start, ts_end |-> end, type |-> "guard", label |-> "oven_left_on",
     score |-> None,
     features |-> [power_w |-> w, minutes_on |-> n]]

\* Mutant: the alert test is streak >= OVEN_MIN_THR.
OvenBodyReemit(o, t, w) ==
    IF Above(w, OVEN_W_THR)
    THEN LET st == IF o.streak = 0 THEN t ELSE o.on_start
             n  == o.streak + 1
         IN  [streak |-> n, off_streak |-> 0, on_start |-> st,
              alerts |-> IF n >= OVEN_MIN_THR
                         THEN Append(o.alerts, OvenAlert(st, t, w, n))
                         ELSE o.alerts]
    ELSE LET f == IF Below(w, OVEN_OFF_HYST) THEN o.off_streak + 1 ELSE o.off_streak
         IN  IF f >= OVEN_OFF_MIN
             THEN [streak |-> 0, off_streak |-> 0, on_start |-> None, alerts |-> o.alerts]
             ELSE [o EXCEPT !.off_streak = f]

\* Mutant: a single sample below the off-threshold resets the streak.
OvenBodyNoHysteresis(o, t, w) ==
    IF Above(w, OVEN_W_THR)
    THEN LET st == IF o.streak = 0 THEN t ELSE o.on_start
             n  == o.streak + 1
         IN  [streak |-> n, off_streak |-> 0, on_start |-> st,
              alerts |-> IF n = OVEN_MIN_THR
                         THEN Append(o.alerts, OvenAlert(st, t, w, n))
                         ELSE o.alerts]
    ELSE LET f == IF Below(w, OVEN_OFF_HYST) THEN o.off_streak + 1 ELSE o.off_streak
         IN  IF f >= 1
             THEN [streak |-> 0, off_streak |-> 0, on_start |-> None, alerts |-> o.alerts]
             ELSE [o EXCEPT !.off_streak = f]

\* Mutant: a missing reading counts as one below the off-threshold.
OvenBodyNaNBelow(o, t, w) ==
    IF Above(w, OVEN_W_THR)
    THEN LET st == IF o.streak = 0 THEN t ELSE o.on_start
             n  == o.streak + 1
         IN  [streak |-> n, off_streak |-> 0, on_start |-> st,
              alerts |-> IF n = OVEN_MIN_THR
                         THEN Append(o.alerts, OvenAlert(st, t, w, n))
                         ELSE o.alerts]
    ELSE LET f == IF isna(w) \/ w < OVEN_OFF_HYST THEN o.off_streak + 1 ELSE o.off_streak
         IN  IF f >= OVEN_OFF_MIN
             THEN [streak |-> 0, off_streak |-> 0, on_start |-> None, alerts |-> o.alerts]
             ELSE [o EXCEPT !.off_streak = f]

\* One iteration of "for t, w in p_series.items()".
OvenBody(o, t, w) ==
    IF Above(w, OVEN_W_THR)
    THEN LET st == IF o.streak = 0 THEN t ELSE o.on_start
             n  == o.streak + 1
         IN  [streak |-> n, off_streak |-> 0, on_start |-> st,
              alerts |-> IF n = OVEN_MIN_THR
                         THEN Append(o.alerts, OvenAlert(st, t, w, n))
                         ELSE o.alerts]
    ELSE LET f == IF Below(w, OVEN_OFF_HYST) THEN o.off_streak + 1 ELSE o.off_streak
         IN  IF f >= OVEN_OFF_MIN
             THEN [streak |-> 0, off_streak |-> 0, on_start |-> None, alerts |-> o.alerts]
             ELSE [o EXCEPT !.off_streak = f]

(* History of the series read so far, kept beside the guard's own state.   *)
(* chatter: while the series has held only samples above the on-threshold  *)
(* or below the off-threshold, with no OVEN_MIN_THR consecutive samples    *)
(* above and no OVEN_OFF_MIN consecutive samples below, ok is TRUE and     *)
(* hi_run, lo_run, hi_total are the current runs and the number of samples *)
(* above the on-threshold; once the series leaves that shape ok is FALSE   *)
(* for good and the counts are dropped.                                    *)
NoChatter == [ok |-> FALSE, hi_run |-> 0, lo_run |-> 0, hi_total |-> 0]

ChatterNext(c, w) ==
    IF ~c.ok THEN NoChatter
    ELSE IF Above(w, OVEN_W_THR)
    THEN IF c.hi_run + 1 >= OVEN_MIN_THR THEN NoChatter
         ELSE [ok |-> TRUE, hi_run |-> c.hi_run + 1, lo_run |-> 0,
               hi_total |-> c.hi_total + 1]
    ELSE IF Below(w, OVEN_OFF_HYST)
    THEN IF c.lo_run + 1 >= OVEN_OFF_MIN THEN NoChatter
         ELSE [ok |-> TRUE, hi_run |-> 0, lo_run |-> c.lo_run + 1,
               hi_total |-> c.hi_total]
    ELSE NoChatter

OvenInit ==
    /\ oven_t = 0
    /\ oven_w = 0
    /\ streak = 0
    /\ off_streak = 0
    /\ on_start = None
    /\ alerts = << >>
    /\ chatter = [ok |-> TRUE, hi_run |-> 0, lo_run |-> 0, hi_total |-> 0]
    /\ episode_run = 0
    /\ lo_run = 0

OvenIdle ==
    /\ oven_t = -1
    /\ oven_w = 0
    /\ streak = 0
    /\ off_streak = 0
    /\ on_start = None
    /\ alerts = << >>
    /\ chatter = NoChatter
    /\ episode_run = 0
    /\ lo_run = 0

\* The loop reads the sample of minute oven_t + 1; oven_w is that sample.
\* episode_run: the length of the current run of consecutive samples above
\* the on-threshold if that run began with streak = 0, else 0.
\* lo_run: the current run of consecutive samples below the off-threshold
\* (counted up to OVEN_OFF_MIN).
OvenSample ==
    /\ oven_t >= 0
    /\ oven_t < MaxSamples
    /\ \E w \in PowerVals :
         LET t == oven_t + 1
             o == OvenBody([streak |-> streak, off_streak |-> off_streak,
                            on_start |-> on_start, alerts |-> alerts], t, w)
         IN  /\ oven_t' = t
             /\ oven_w' = w
             /\ streak' = o.streak
             /\ off_streak' = o.off_streak
             /\ on_start' = o.on_start
             /\ alerts' = o.alerts
             /\ chatter' = ChatterNext(chatter, w)
             /\ episode_run' = IF Above(w, OVEN_W_THR)
                               THEN IF episode_run > 0 \/ streak = 0
                                    THEN episode_run + 1 ELSE 0
                               ELSE 0
             /\ lo_run' = IF Below(w, OVEN_OFF_HYST)
                          THEN IF lo_run < OVEN_OFF_MIN THEN lo_run + 1 ELSE lo_run
                          ELSE 0
    /\ UNCHANGED << debVars, sleepVars, candVars, thrVars, groupVars, pipeVars,
                    quietVars, roomVars, traceVars, sysVars, mqttVars >>

OvenNext == OvenSample

(***************************************************************************)
(* is_quiet_hour                                                           *)
(***************************************************************************)
\* Mutant: the two tests are joined by "and" (right only for a range that
\* does not wrap past midnight).
is_quiet_hour_and(hour) == IF hour >= QUIET_START /\ hour < QUIET_END THEN 1 ELSE 0

\* is_quiet_hour(hour) when Config.QUIET_START is qs and Config.QUIET_END
\* is qe
is_quiet_hour_at(hour, qs, qe) == IF hour >= qs \/ hour < qe THEN 1 ELSE 0

is_quiet_hour(hour) == is_quiet_hour_at(hour, QUIET_START, QUIET_END)

Hours == 0..23

\* A call is_quiet_hour(q_hour) under a configured quiet range.
QuietInit ==
    /\ quiet_start \in Hours
    /\ quiet_end \in Hours
    /\ q_hour \in Hours
    /\ q_ret = 0
    /\ q_pc = "call"

QuietIdle ==
    /\ quiet_start = QUIET_START
    /\ quiet_end = QUIET_END
    /\ q_hour = 0
    /\ q_ret = 0
    /\ q_pc = "idle"

QuietCall ==
    /\ q_pc = "call"
    /\ q_ret' = is_quiet_hour_at(q_hour, quiet_start, quiet_end)
    /\ q_pc' = "ret"
    /\ UNCHANGED << quiet_start, quiet_end, q_hour >>
    /\ UNCHANGED << debVars, ovenVars, sleepVars, candVars, thrVars, groupVars, pipeVars,
                    roomVars, traceVars, sysVars, mqttVars >>

QuietNext == QuietCall

(***************************************************************************)
(* sleep_sessions_from_bed                                                 *)
(*                                                                         *)
(* Timestamps of the 1-minute index are minutes since 00:00 of the first   *)
(* day; the timestamps of alerts are seconds (ts_end is "e - 1 second").   *)
(***************************************************************************)
\* The series starts at 21:00.
IdxStart == 21 * 60

HourOf(m) == (m \div 60) % 24

\* The series tried: len rows from minute start; bedroom presence from
\* p_start to p_end (exclusive) except for away minutes from 23:50, with
\* turnovers every turn_period minutes from p_start + turn_first, at most
\* turn_count of them, and no motion elsewhere.
BedSeries ==
    [start : {IdxStart},
     p_start : {21 * 60 + 30, 23 * 60, 23 * 60 + 30},
     p_end : {24 * 60 + 20, 29 * 60, 30 * 60 + 30},
     away : {0, 5},
     turn_first : {0, 10},
     turn_period : {10},
     turn_count : {0, 1, 100},
     len : {300, ScanLen}]

AwayStart == 23 * 60 + 50

IsTurnover(b, m) ==
    /\ m >= b.p_start + b.turn_first
    /\ (m - b.p_start - b.turn_first) % b.turn_period = 0
    /\ (m - b.p_start - b.turn_first) \div b.turn_period < b.turn_count

\* df_minutes["bedroom_motion"] at minute m
bedroom_motion(b, m) ==
    IF m >= b.p_start /\ m < b.p_end /\ ~(m >= AwayStart /\ m < AwayStart + b.away)
    THEN IF IsTurnover(b, m) THEN SLEEP_TURNOVER_THRESHOLD ELSE SLEEP_MIN_PRESS
    ELSE 0

InIndex(b, m) == m >= b.start /\ m < b.start + b.len

pressed(b, m) == IF bedroom_motion(b, m) >= SLEEP_MIN_PRESS THEN 1 ELSE 0

\* seg[seg >= SLEEP_TURNOVER_THRESHOLD].index.tolist() over
\* date_range(s, e - 1 min) intersected with the index, in time order
turnover_minutes(b, ss, e) ==
    SelectSeq([i \in 1..(e - ss) |-> ss + i - 1],
              LAMBDA m : InIndex(b, m) /\ bedroom_motion(b, m) >= SLEEP_TURNOVER_THRESHOLD)

SegLen(b, ss, e) == Cardinality({m \in ss..(e - 1) : InIndex(b, m)})

RECURSIVE MaxGapFrom(_, _, _)
\* the loop "for i in range(1, len(times))" from position i with max_gap g
MaxGapFrom(times, i, g) ==
    IF i > Len(times) THEN g
    ELSE LET gap == times[i] - times[i - 1]
         IN  MaxGapFrom(times, i + 1, IF gap > g THEN gap ELSE g)

\* Mutant: the session end is not among the markers.
max_gap_no_end(b, ss, e) == MaxGapFrom(<< ss >> \o turnover_minutes(b, ss, e), 2, 0)

max_gap(b, ss, e) == MaxGapFrom(<< ss >> \o turnover_minutes(b, ss, e) \o << e >>, 2, 0)

SleepSessionAlert(b, ss, e) ==
    [ts_start |-> ss * 60, ts_end |-> e * 60 - 1, type |-> "info", label |-> "sleep_session",
     score |-> None,
     features |-> [duration_min |-> e - ss,
                   turnovers |-> Len(turnover_minutes(b, ss, e)),
                   quiet_hours |-> 1]]

ImmobilityAlert(b, ss, e) ==
    [ts_start |-> ss * 60, ts_end |-> e * 60 - 1, type |-> "guard",
     label |-> "possible_immobility",
     score |-> None,
     features |-> [max_gap_min |-> max_gap(b, ss, e),
                   threshold_min |-> SLEEP_IMMOBILITY_GAP_MIN]]

\* A variant of the loop body that appends the immobility guard before the
\* session it is derived from.
SessionAlertsImmobilityFirst(b, ss, e) ==
    IF e - ss < SLEEP_MIN_SESSION_MIN THEN << >>
    ELSE IF SegLen(b, ss, e) = 0 THEN << >>
    ELSE (IF SLEEP_IMMOBILITY_GAP_MIN > 0 /\ max_gap(b, ss, e) >= SLEEP_IMMOBILITY_GAP_MIN
          THEN << ImmobilityAlert(b, ss, e) >>
          ELSE << >>)
         \o << SleepSessionAlert(b, ss, e) >>

\* The body of "for (s, e) in sessions": the alerts one session adds.
SessionAlerts(b, ss, e) ==
    IF e - ss < SLEEP_MIN_SESSION_MIN THEN << >>
    ELSE IF SegLen(b, ss, e) = 0 THEN << >>
    ELSE << SleepSessionAlert(b, ss, e) >>
         \o (IF SLEEP_IMMOBILITY_GAP_MIN > 0 /\ max_gap(b, ss, e) >= SLEEP_IMMOBILITY_GAP_MIN
             THEN << ImmobilityAlert(b, ss, e) >>
             ELSE << >>)

SleepInit ==
    /\ df_minutes \in BedSeries
    /\ sleep_t = df_minutes.start
    /\ in_sess = FALSE
    /\ s_start = None
    /\ sessions = << >>
    /\ sess_i = 0
    /\ alerts_local = << >>
    /\ sleep_pc = "scan"

SleepIdle ==
    /\ df_minutes = [start |-> 0, p_start |-> 0, p_end |-> 0, away |-> 0, turn_first |-> 0,
                     turn_period |-> 1, turn_count |-> 0, len |-> 0]
    /\ sleep_t = 0
    /\ in_sess = FALSE
    /\ s_start = None
    /\ sessions = << >>
    /\ sess_i = 0
    /\ alerts_local = << >>
    /\ sleep_pc = "idle"

\* Mutant: s_start is set at every pressed quiet sample, not only when no
\* session is open.
SleepScanBodyRestart(c, b, m) ==
    IF pressed(b, m) = 1 /\ is_quiet_hour(HourOf(m)) = 1
    THEN [in_sess |-> TRUE, s_start |-> m, sessions |-> c.sessions]
    ELSE [in_sess |-> FALSE,
          s_start |-> c.s_start,
          sessions |-> IF c.in_sess THEN Append(c.sessions, << c.s_start, m >>)
                       ELSE c.sessions]

\* The body of "for t, v in pressed.items()" at minute m.
SleepScanBody(c, b, m) ==
    IF pressed(b, m) = 1 /\ is_quiet_hour(HourOf(m)) = 1
    THEN [in_sess |-> TRUE,
          s_start |-> IF c.in_sess THEN c.s_start ELSE m,
          sessions |-> c.sessions]
    ELSE [in_sess |-> FALSE,
          s_start |-> c.s_start,
          sessions |-> IF c.in_sess THEN Append(c.sessions, << c.s_start, m >>)
                       ELSE c.sessions]

\* One iteration of "for t, v in pressed.items()", at minute sleep_t.
SleepScan ==
    /\ sleep_pc = "scan"
    /\ sleep_t < df_minutes.start + df_minutes.len
    /\ LET c == SleepScanBody([in_sess |-> in_sess, s_start |-> s_start,
                               sessions |-> sessions], df_minutes, sleep_t)
       IN  /\ in_sess' = c.in_sess
           /\ s_start' = c.s_start
           /\ sessions' = c.sessions
    /\ sleep_t' = sleep_t + 1
    /\ UNCHANGED << df_minutes, sess_i, alerts_local, sleep_pc >>
    /\ UNCHANGED << debVars, ovenVars, candVars, thrVars, groupVars, pipeVars,
                    quietVars, roomVars, traceVars, sysVars, mqttVars >>

\* The index is exhausted: a session still open is closed one minute after
\* the last row, and the analysis starts.
SleepScanEnd ==
    /\ sleep_pc = "scan"
    /\ sleep_t = df_minutes.start + df_minutes.len
    /\ sessions' = IF in_sess /\ s_start # None
                   THEN Append(sessions, << s_start, (sleep_t - 1) + 1 >>)
                   ELSE sessions
    /\ sess_i' = 1
    /\ sleep_pc' = "analyze"
    /\ UNCHANGED << df_minutes, sleep_t, in_sess, s_start, alerts_local >>
    /\ UNCHANGED << debVars, ovenVars, candVars, thrVars, groupVars, pipeVars,
                    quietVars, roomVars, traceVars, sysVars, mqttVars >>

\* One iteration of "for (s, e) in sessions".
SleepAnalyze ==
    /\ sleep_pc = "analyze"
    /\ sess_i <= Len(sessions)
    /\ alerts_local' = alerts_local
                       \o SessionAlerts(df_minutes, sessions[sess_i][1], sessions[sess_i][2])
    /\ sess_i' = sess_i + 1
    /\ UNCHANGED << df_minutes, sleep_t, in_sess, s_start, sessions, sleep_pc >>
    /\ UNCHANGED << debVars, ovenVars, candVars, thrVars, groupVars, pipeVars,
                    quietVars, roomVars, traceVars, sysVars, mqttVars >>

\* return alerts_local
SleepReturn ==
    /\ sleep_pc = "analyze"
    /\ sess_i > Len(sessions)
    /\ sleep_pc' = "done"
    /\ UNCHANGED << df_minutes, sleep_t, in_sess, s_start, sessions, sess_i, alerts_local >>
    /\ UNCHANGED << debVars, ovenVars, candVars, thrVars, groupVars, pipeVars,
                    quietVars, roomVars, traceVars, sysVars, mqttVars >>

SleepNext == SleepScan \/ SleepScanEnd \/ SleepAnalyze \/ SleepReturn

(***************************************************************************)
(* is_candidate_anomaly                                                    *)
(*                                                                         *)
(* anomaly_score and threshold are in hundredths; adj_thr, the product of  *)
(* the threshold and the factor (0.90 or 1.0, in hundredths), is in        *)
(* ten-thousandths.  oven_on_frac is in fifteenths (minutes of WINDOW_MIN).*)
(***************************************************************************)
Rows ==
    [is_quiet : {0, 1},
     unique_rooms : 0..3,
     room_transitions : {0, 2, 3},
     oven_on_frac : {0, 1},
     motion_sum : {0, 11, 12, 13, 30, 31, 60, 61},
     anomaly_score : {-10, -9, 0, 9, 10},
     threshold : {-10, 0, 10}]

AdjThr(r) == r.threshold * (IF r.is_quiet = 1 THEN QUIET_THRESHOLD_FACTOR_PCT ELSE 100)

Suppressed(r) ==
    /\ r.is_quiet = 1
    /\ r.unique_rooms = 1
    /\ r.room_transitions = 0
    /\ r.oven_on_frac = 0
    /\ r.motion_sum <= QUIET_LOW_MOTION_MAX

pressure_only(r) == r.unique_rooms = 1 /\ r.oven_on_frac = 0

\* Mutant: the high-motion branch accepts motion_sum equal to the threshold.
hard_activity_inclusive(r) ==
    \/ (r.is_quiet = 1 /\ r.room_transitions >= QUIET_TRANSITIONS_ANOMALY)
    \/ r.motion_sum >= HIGH_MOTION_THRESHOLD
    \/ (pressure_only(r) /\ r.motion_sum >= PRESSURE_ONLY_MOTION_MIN)

\* Mutant: branch (c) does not ask for a pressure-only window.
hard_activity_any_shape(r) ==
    \/ (r.is_quiet = 1 /\ r.room_transitions >= QUIET_TRANSITIONS_ANOMALY)
    \/ r.motion_sum > HIGH_MOTION_THRESHOLD
    \/ r.motion_sum >= PRESSURE_ONLY_MOTION_MIN

hard_activity(r) ==
    \/ (r.is_quiet = 1 /\ r.room_transitions >= QUIET_TRANSITIONS_ANOMALY)
    \/ r.motion_sum > HIGH_MOTION_THRESHOLD
    \/ (pressure_only(r) /\ r.motion_sum >= PRESSURE_ONLY_MOTION_MIN)

\* Mutant: the suppression rule is missing.
IsCandidateAnomalyNoSuppress(r) ==
    (r.anomaly_score * 100 >= AdjThr(r)) /\ hard_activity(r)

IsCandidateAnomaly(r) ==
    IF Suppressed(r) THEN FALSE
    ELSE (r.anomaly_score * 100 >= AdjThr(r)) /\ hard_activity(r)

CandInit ==
    /\ row \in Rows
    /\ adj_thr = 0
    /\ is_candidate = FALSE
    /\ cand_pc = "call"

CandIdle ==
    /\ row = [is_quiet |-> 0, unique_rooms |-> 0, room_transitions |-> 0, oven_on_frac |-> 0,
              motion_sum |-> 0, anomaly_score |-> 0, threshold |-> 0]
    /\ adj_thr = 0
    /\ is_candidate = FALSE
    /\ cand_pc = "idle"

\* The call is_candidate_anomaly(row).
CandEvaluate ==
    /\ cand_pc = "call"
    /\ adj_thr' = AdjThr(row)
    /\ is_candidate' = IsCandidateAnomaly(row)
    /\ cand_pc' = "ret"
    /\ UNCHANGED row
    /\ UNCHANGED << debVars, ovenVars, sleepVars, thrVars, groupVars, pipeVars,
                    quietVars, roomVars, traceVars, sysVars, mqttVars >>

CandNext == CandEvaluate

(***************************************************************************)
(* Adaptive thresholds (run_pipeline_from_df, step 5)                      *)
(*                                                                         *)
(* Scores are integers; a quantile is returned times 1000, so thr_by_hour, *)
(* global_thr and threshold are in thousandths of a score unit.            *)
(***************************************************************************)
ThrHours == {9, 10}
ScoreVals == {0, 1, 5}

Windows == UNION {[1..n -> [hour : ThrHours, anomaly_score : ScoreVals]] : n \in 1..MaxWin}

\* the values in ascending order
Sort(xs) == SortSeq(xs, LAMBDA a, b : a < b)

\* Mutant: the interpolation weight is taken from the other end.
QuantileReversed(xs, q) ==
    LET srt == Sort(xs)
        pos == (Len(srt) - 1) * q
        lo  == pos \div 1000
        fr  == pos % 1000
        hi  == IF lo + 2 <= Len(srt) THEN lo + 2 ELSE Len(srt)
    IN  srt[lo + 1] * 1000 + (1000 - fr) * (srt[hi] - srt[lo + 1])

\* quantile(q) with linear interpolation, q in parts per thousand; the
\* result times 1000.
Quantile(xs, q) ==
    LET srt == Sort(xs)
        pos == (Len(srt) - 1) * q
        lo  == pos \div 1000
        fr  == pos % 1000
        hi  == IF lo + 2 <= Len(srt) THEN lo + 2 ELSE Len(srt)
    IN  srt[lo + 1] * 1000 + fr * (srt[hi] - srt[lo + 1])

\* the scores of the windows whose hour is in hs, in order
ScoresOf(ws, hs) ==
    LET sel == SelectSeq(ws, LAMBDA w : w.hour \in hs)
    IN  [i \in 1..Len(sel) |-> sel[i].anomaly_score]

HoursIn(ws) == {ws[i].hour : i \in 1..Len(ws)}

\* X.groupby(hour)["anomaly_score"].quantile(q).to_dict()
ThrByHour(ws, q) == [h \in HoursIn(ws) |-> Quantile(ScoresOf(ws, {h}), q)]

\* np.quantile(X["anomaly_score"], q)
GlobalThr(ws, q) == Quantile(ScoresOf(ws, HoursIn(ws)), q)

\* thr_by_hour.get(h, global_thr)
ThrGet(byHour, h, dflt) == IF h \in DOMAIN byHour THEN byHour[h] ELSE dflt

\* Values of Config.ANOM_PCTL_PER_HOUR tried, in parts per thousand of q.
Pctls == {0, 500, 900, ANOM_PCTL_PER_MILLE, 1000}

ThrInit ==
    /\ X \in Windows
    /\ pctl \in Pctls
    /\ thr_by_hour = << >>
    /\ global_thr = 0
    /\ threshold = << >>
    /\ thr_pc = "scored"

ThrIdle ==
    /\ X = << >>
    /\ pctl = ANOM_PCTL_PER_MILLE
    /\ thr_by_hour = << >>
    /\ global_thr = 0
    /\ threshold = << >>
    /\ thr_pc = "idle"

\* Step 5: the per-hour quantiles, the global quantile, and the threshold
\* column; pctl is Config.ANOM_PCTL_PER_HOUR of the run.
AdaptiveThresholds ==
    /\ thr_pc = "scored"
    /\ thr_by_hour' = ThrByHour(X, pctl)
    /\ global_thr' = GlobalThr(X, pctl)
    /\ threshold' = [i \in 1..Len(X) |->
                       ThrGet(ThrByHour(X, pctl), X[i].hour, GlobalThr(X, pctl))]
    /\ thr_pc' = "thresholded"
    /\ UNCHANGED << X, pctl >>
    /\ UNCHANGED << debVars, ovenVars, sleepVars, candVars, groupVars, pipeVars,
                    quietVars, roomVars, traceVars, sysVars, mqttVars >>

ThrNext == AdaptiveThresholds

(***************************************************************************)
(* group_anomaly_incidents                                                 *)
(*                                                                         *)
(* df_anom is the frame of candidate windows, in time order; ts is in      *)
(* seconds.  gap = total_seconds() / 60.0 is compared with                 *)
(* MIN_ALERT_GAP_MIN, which is done here in seconds.                       *)
(***************************************************************************)
HourOfSec(t) == (t \div 3600) % 24

GapsSec == {5 * 60, MIN_ALERT_GAP_MIN * 60, (MIN_ALERT_GAP_MIN + 1) * 60}
FirstTs == {5 * 3600, 21 * 3600 + 30 * 60}

RECURSIVE TsAt(_, _, _)
\* the timestamp of row i: t0 plus the gaps before it
TsAt(t0, gaps, i) == IF i <= 1 THEN t0 ELSE TsAt(t0, gaps, i - 1) + gaps[i]

\* The frames tried: n rows from t0 with the given gaps, scores sc, room
\* transitions alternating from r0; is_quiet follows the timestamp, and
\* motion_sum numbers the rows.
CandFrame(n, t0, gaps, sc, r0) ==
    [i \in 1..n |->
        [ts |-> TsAt(t0, gaps, i),
         anomaly_score |-> sc[i],
         is_quiet |-> is_quiet_hour(HourOfSec(TsAt(t0, gaps, i))),
         room_transitions |-> 2 + ((r0 + i) % 2),
         motion_sum |-> HIGH_MOTION_THRESHOLD + i,
         unique_rooms |-> 2,
         oven_on_frac |-> 0]]

CandFrames ==
    UNION {{CandFrame(n, t0, gaps, sc, r0) :
                t0 \in FirstTs, gaps \in [2..n -> GapsSec], sc \in [1..n -> {1, 2}],
                r0 \in {0, 1}} : n \in 0..MaxCand}

\* Mutant: the gap is measured to the incident's first candidate.
GroupBodyFromFirst(g, r) ==
    IF g.cur = << >> THEN [cur |-> << r >>, incidents |-> g.incidents]
    ELSE IF r.ts - g.cur[1].ts <= MIN_ALERT_GAP_MIN * 60
         THEN [cur |-> Append(g.cur, r), incidents |-> g.incidents]
         ELSE [cur |-> << r >>, incidents |-> Append(g.incidents, g.cur)]

\* Mutant: a closed incident of one candidate is not kept.
GroupBodyDropSingle(g, r) ==
    IF g.cur = << >> THEN [cur |-> << r >>, incidents |-> g.incidents]
    ELSE IF r.ts - g.cur[Len(g.cur)].ts <= MIN_ALERT_GAP_MIN * 60
         THEN [cur |-> Append(g.cur, r), incidents |-> g.incidents]
         ELSE [cur |-> << r >>,
               incidents |-> IF Len(g.cur) > 1 THEN Append(g.incidents, g.cur)
                             ELSE g.incidents]

\* The body of "for _, row in df_anom.iterrows()".
GroupBody(g, r) ==
    IF g.cur = << >> THEN [cur |-> << r >>, incidents |-> g.incidents]
    ELSE IF r.ts - g.cur[Len(g.cur)].ts <= MIN_ALERT_GAP_MIN * 60
         THEN [cur |-> Append(g.cur, r), incidents |-> g.incidents]
         ELSE [cur |-> << r >>, incidents |-> Append(g.incidents, g.cur)]

\* Mutant: the incident's last window stands for the incident.
PeakOfLast(inc) == inc[Len(inc)]

\* max(inc, key=anomaly_score): the first row of the largest score
PeakOf(inc) ==
    inc[CHOOSE i \in 1..Len(inc) :
            /\ \A j \in 1..Len(inc) : inc[j].anomaly_score <= inc[i].anomaly_score
            /\ \A j \in 1..(i - 1) : inc[j].anomaly_score < inc[i].anomaly_score]

\* A variant whose alert starts with the first row of the first window of
\* the incident.
IncidentAlertWindowStart(inc) ==
    LET peak == PeakOf(inc)
    IN  [ts_start |-> inc[1].ts - (WINDOW_MIN - 1) * 60,
         ts_end |-> inc[Len(inc)].ts,
         type |-> "anomaly",
         label |-> IF peak.is_quiet = 1
                      /\ peak.room_transitions >= QUIET_TRANSITIONS_ANOMALY
                   THEN "night_wandering" ELSE "unusual_activity",
         score |-> peak.anomaly_score,
         features |-> [motion_sum |-> peak.motion_sum,
                       unique_rooms |-> peak.unique_rooms,
                       room_transitions |-> peak.room_transitions,
                       oven_on_frac |-> peak.oven_on_frac,
                       is_quiet |-> peak.is_quiet]]

\* The body of "for inc in incidents": the alert of one incident.
IncidentAlert(inc) ==
    LET peak == PeakOf(inc)
    IN  [ts_start |-> inc[1].ts,
         ts_end |-> inc[Len(inc)].ts,
         type |-> "anomaly",
         label |-> IF peak.is_quiet = 1
                      /\ peak.room_transitions >= QUIET_TRANSITIONS_ANOMALY
                   THEN "night_wandering" ELSE "unusual_activity",
         score |-> peak.anomaly_score,
         features |-> [motion_sum |-> peak.motion_sum,
                       unique_rooms |-> peak.unique_rooms,
                       room_transitions |-> peak.room_transitions,
                       oven_on_frac |-> peak.oven_on_frac,
                       is_quiet |-> peak.is_quiet]]

GroupInit ==
    /\ df_anom \in CandFrames
    /\ grp_i = 1
    /\ cur = << >>
    /\ incidents = << >>
    /\ grp_out = << >>
    /\ grp_pc = "rows"

GroupIdle ==
    /\ df_anom = << >>
    /\ grp_i = 0
    /\ cur = << >>
    /\ incidents = << >>
    /\ grp_out = << >>
    /\ grp_pc = "idle"

\* One iteration of "for _, row in df_anom.iterrows()".
GroupRow ==
    /\ grp_pc = "rows"
    /\ grp_i <= Len(df_anom)
    /\ LET g == GroupBody([cur |-> cur, incidents |-> incidents], df_anom[grp_i])
       IN  /\ cur' = g.cur
           /\ incidents' = g.incidents
    /\ grp_i' = grp_i + 1
    /\ UNCHANGED << df_anom, grp_out, grp_pc >>
    /\ UNCHANGED << debVars, ovenVars, sleepVars, candVars, thrVars, pipeVars,
                    quietVars, roomVars, traceVars, sysVars, mqttVars >>

\* "if cur: incidents.append(cur)"
GroupFlush ==
    /\ grp_pc = "rows"
    /\ grp_i > Len(df_anom)
    /\ incidents' = IF cur # << >> THEN Append(incidents, cur) ELSE incidents
    /\ grp_i' = 1
    /\ grp_pc' = "incidents"
    /\ UNCHANGED << df_anom, cur, grp_out >>
    /\ UNCHANGED << debVars, ovenVars, sleepVars, candVars, thrVars, pipeVars,
                    quietVars, roomVars, traceVars, sysVars, mqttVars >>

\* One iteration of "for inc in incidents".
GroupBuild ==
    /\ grp_pc = "incidents"
    /\ grp_i <= Len(incidents)
    /\ grp_out' = Append(grp_out, IncidentAlert(incidents[grp_i]))
    /\ grp_i' = grp_i + 1
    /\ UNCHANGED << df_anom, cur, incidents, grp_pc >>
    /\ UNCHANGED << debVars, ovenVars, sleepVars, candVars, thrVars, pipeVars,
                    quietVars, roomVars, traceVars, sysVars, mqttVars >>

\* "return out"
GroupReturn ==
    /\ grp_pc = "incidents"
    /\ grp_i > Len(incidents)
    /\ grp_pc' = "done"
    /\ UNCHANGED << df_anom, grp_i, cur, incidents, grp_out >>
    /\ UNCHANGED << debVars, ovenVars, sleepVars, candVars, thrVars, pipeVars,
                    quietVars, roomVars, traceVars, sysVars, mqttVars >>

GroupNext == GroupRow \/ GroupFlush \/ GroupBuild \/ GroupReturn

(***************************************************************************)
(* run_pipeline_from_df                                                    *)
(*                                                                         *)
(* Row i (from 0) of the frame is minute df.start + i, in minutes since    *)
(* 00:00 of day 0; the timestamps of alerts are in seconds.  The frame's   *)
(* columns are given by rule: bedroom_motion as in the sleep detector,     *)
(* hall and kitchen motion (and supplied raw presence, when the frame      *)
(* brings it) from somebody walking between the two rooms, two minutes in  *)
(* each, for w_len minutes from w_start, and oven power 900 W for o_len    *)
(* minutes from o_start, but for one reading of 0 W o_dip minutes after    *)
(* o_start when o_dip > 0.                                                 *)
(*                                                                         *)
(* The scaler and the IsolationForest are library code: the score of a     *)
(* window is given by one of the ScoreModels, chosen freely.  uuid4 is     *)
(* taken to return an identifier it has not returned before.  The          *)
(* explanation strings of the alerts and the features that are only        *)
(* inputs of the forest (motion_sum_sqrt, sin_hour, cos_hour) are left     *)
(* out.                                                                    *)
(***************************************************************************)
RawCol(room) == room \o "_present_raw"
PresentCol(room) == room \o "_present"
RawCols == {RawCol(ROOMS[k]) : k \in 1..Len(ROOMS)}

\* minutes = 24 * 60 of generate_demo_data: a day of rows
DayRows == 24 * 60

ColumnSets ==
    {REQUIRED_COLUMNS, REQUIRED_COLUMNS \ {"oven_power_w"}, REQUIRED_COLUMNS \cup RawCols}

\* Short frames from 01:50, with or without a DatetimeIndex, the walk
\* starting at 01:52 (in the raw presence only when w_mag = 0).
ShortFrames ==
    [has_index : BOOLEAN, columns : ColumnSets, start : {110}, len : 0..MaxRows,
     p_start : {0}, p_end : {0}, away : {0},
     turn_first : {0}, turn_period : {10}, turn_count : {0},
     w_start : {112}, w_len : {20}, w_mag : {0, 3},
     o_start : {0}, o_len : {0}, o_dip : {0}]

\* A day from 00:00, the oven on from 23:00 to midnight: either no motion
\* at all (motion = FALSE), with or without supplied raw presence showing
\* the walk from 02:00 to 02:25, or somebody in bed until 06:30 and the
\* walk in the motion columns.
DayFrame(cols, motion, turns) ==
    [has_index |-> TRUE, columns |-> cols, start |-> 0, len |-> DayRows,
     p_start |-> 0, p_end |-> IF motion THEN 6 * 60 + 30 ELSE 0, away |-> 0,
     turn_first |-> 10, turn_period |-> 10, turn_count |-> turns,
     w_start |-> 2 * 60, w_len |-> 25, w_mag |-> IF motion THEN 5 ELSE 0,
     o_start |-> 23 * 60, o_len |-> 60, o_dip |-> 0]

\* An evening of rows from 19:00 to 00:30 with no motion and the oven off:
\* 64 windows, six of them ending after midnight.
LateFrame ==
    [has_index |-> TRUE, columns |-> REQUIRED_COLUMNS, start |-> 19 * 60,
     len |-> 5 * 60 + 30,
     p_start |-> 0, p_end |-> 0, away |-> 0,
     turn_first |-> 0, turn_period |-> 10, turn_count |-> 0,
     w_start |-> 0, w_len |-> 0, w_mag |-> 0, o_start |-> 0, o_len |-> 0,
     o_dip |-> 0]

\* Rows from 01:50 to 02:14 with a walk from 01:52 that ends in the hall
\* at 02:00 and 02:01, the first two rows of the third window.
LagFrame ==
    [has_index |-> TRUE, columns |-> REQUIRED_COLUMNS, start |-> 110, len |-> 25,
     p_start |-> 0, p_end |-> 0, away |-> 0,
     turn_first |-> 0, turn_period |-> 10, turn_count |-> 0,
     w_start |-> 112, w_len |-> 10, w_mag |-> 3, o_start |-> 0, o_len |-> 0,
     o_dip |-> 0]

\* An hour of rows from 01:50 with a walk of eight minutes from 01:52, which
\* only the first window holds whole, and the oven on from 01:55 for 45
\* minutes, but for the reading of 02:05.
DipFrame ==
    [has_index |-> TRUE, columns |-> REQUIRED_COLUMNS, start |-> 110, len |-> 60,
     p_start |-> 0, p_end |-> 0, away |-> 0,
     turn_first |-> 0, turn_period |-> 10, turn_count |-> 0,
     w_start |-> 112, w_len |-> 8, w_mag |-> 3, o_start |-> 115, o_len |-> 45,
     o_dip |-> 10]

\* The calls tried: df_input, save_output, household_id.
PipeCalls ==
    {[df |-> f, save_output |-> a[1], household_id |-> a[2]] :
        f \in ShortFrames, a \in {<< TRUE, "H1" >>, << FALSE, "H2" >>}}
    \cup {[df |-> DayFrame(cols, FALSE, 0), save_output |-> TRUE, household_id |-> "H1"] :
            cols \in {REQUIRED_COLUMNS, REQUIRED_COLUMNS \cup RawCols}}
    \cup {[df |-> DayFrame(REQUIRED_COLUMNS, TRUE, 100), save_output |-> TRUE,
           household_id |-> "H1"],
          [df |-> DayFrame(REQUIRED_COLUMNS, TRUE, 0), save_output |-> FALSE,
           household_id |-> "H2"],
          [df |-> LateFrame, save_output |-> FALSE, household_id |-> "H1"],
          [df |-> LagFrame, save_output |-> FALSE, household_id |-> "H1"],
          [df |-> DipFrame, save_output |-> FALSE, household_id |-> "H1"]}

InWalk(d, m) == m >= d.w_start /\ m < d.w_start + d.w_len
InHall(d, m) == InWalk(d, m) /\ (m - d.w_start) % 4 < 2
InKitchen(d, m) == InWalk(d, m) /\ (m - d.w_start) % 4 >= 2

\* df["{room}_motion"] at minute m
motion(d, room, m) ==
    CASE room = "hall" -> IF InHall(d, m) THEN d.w_mag ELSE 0
      [] room = "kitchen" -> IF InKitchen(d, m) THEN d.w_mag ELSE 0
      [] room = "bedroom" -> bedroom_motion(d, m)

\* df["oven_power_w"] at minute m
oven_power_w(d, m) ==
    IF m >= d.o_start /\ m < d.o_start + d.o_len /\ ~(d.o_dip > 0 /\ m = d.o_start + d.o_dip)
    THEN 900 ELSE 0

\* df["{room}_present_raw"] at minute m, in a frame that brings the column
supplied_present_raw(d, room, m) ==
    CASE room = "hall" -> IF InHall(d, m) THEN 1 ELSE 0
      [] room = "kitchen" -> IF InKitchen(d, m) THEN 1 ELSE 0
      [] room = "bedroom" -> 0

\* Mutant: fewer than WINDOW_MIN rows are accepted.
validate_input_dataframe_any_length(d) ==
    IF ~d.has_index THEN "DataFrame must have a DatetimeIndex"
    ELSE IF REQUIRED_COLUMNS \ d.columns # {} THEN "Missing required columns"
    ELSE ""

\* validate_input_dataframe: the message of the ValueError raised, "" if
\* none is.
validate_input_dataframe(d) ==
    IF ~d.has_index THEN "DataFrame must have a DatetimeIndex"
    ELSE IF REQUIRED_COLUMNS \ d.columns # {} THEN "Missing required columns"
    ELSE IF d.len < WINDOW_MIN THEN "DataFrame must have at least WINDOW_MIN rows"
    ELSE ""

\* df_local["{room}_present_raw"] at minute m: the column of the input, or
\* (motion > 0).astype(int)
present_raw(d, src, room, m) ==
    IF src[room] = "input" THEN supplied_present_raw(d, room, m)
    ELSE IF motion(d, room, m) > 0 THEN 1 ELSE 0

\* current_room is a room name or NoRoom (None)
NoRoom == "None"

\* Mutant: the previous room is not preferred.
infer_current_room_first(flags, prev_room) ==
    LET active == SelectSeq(ROOMS, LAMBDA r : flags[r] = 1)
    IN  IF active = << >> THEN NoRoom ELSE active[1]

\* A variant that keeps a known previous room whether it is active or not.
infer_current_room_keep(flags, prev_room) ==
    LET active == SelectSeq(ROOMS, LAMBDA r : flags[r] = 1)
    IN  IF prev_room # NoRoom THEN prev_room
        ELSE IF active = << >> THEN NoRoom
        ELSE active[1]

\* infer_current_room, the row given as the presence flag of each room
infer_current_room(flags, prev_room) ==
    LET active == SelectSeq(ROOMS, LAMBDA r : flags[r] = 1)
    IN  IF active = << >> THEN NoRoom
        ELSE IF \E k \in 1..Len(active) : active[k] = prev_room THEN prev_room
        ELSE active[1]

RECURSIVE CountFromLast(_, _, _, _)
\* Mutant: prev is the entry just before, null or not.
CountFromLast(rooms, i, prev, transitions) ==
    IF i > Len(rooms) THEN transitions
    ELSE LET room == rooms[i]
         IN  CountFromLast(rooms, i + 1, room,
                           IF room # NoRoom /\ prev # NoRoom /\ room # prev
                           THEN transitions + 1 ELSE transitions)

RECURSIVE CountFrom(_, _, _, _)
\* the loop of count_room_transitions from position i
CountFrom(rooms, i, prev, transitions) ==
    IF i > Len(rooms) THEN transitions
    ELSE LET room == rooms[i]
         IN  CountFrom(rooms, i + 1,
                       IF room # NoRoom THEN room ELSE prev,
                       IF room # NoRoom /\ prev # NoRoom /\ room # prev
                       THEN transitions + 1 ELSE transitions)

count_room_transitions(rooms) == CountFrom(rooms, 1, NoRoom, 0)

RoomSet == {ROOMS[k] : k \in 1..Len(ROOMS)}

\* the values of a current_room column of n rows
RoomTraces(n) == [1..n -> RoomSet \cup {NoRoom}]

\* A call infer_current_room(row, prev_room), row given by its presence
\* flags, and a call count_room_transitions(window_df), window_df given by
\* its current_room column.
RoomInit ==
    /\ rm_flags \in [RoomSet -> {0, 1}]
    /\ rm_prev \in RoomSet \cup {NoRoom}
    /\ rm_window \in UNION {RoomTraces(n) : n \in 0..MaxTrace}
    /\ rm_ret = NoRoom
    /\ rm_transitions = 0
    /\ rm_pc = "call"

RoomIdle ==
    /\ rm_flags = [r \in RoomSet |-> 0]
    /\ rm_prev = NoRoom
    /\ rm_window = << >>
    /\ rm_ret = NoRoom
    /\ rm_transitions = 0
    /\ rm_pc = "idle"

RoomInfer ==
    /\ rm_pc = "call"
    /\ rm_ret' = infer_current_room(rm_flags, rm_prev)
    /\ rm_pc' = "inferred"
    /\ UNCHANGED << rm_flags, rm_prev, rm_window, rm_transitions >>
    /\ UNCHANGED << debVars, ovenVars, sleepVars, candVars, thrVars, groupVars, pipeVars,
                    quietVars, traceVars, sysVars, mqttVars >>

RoomCount ==
    /\ rm_pc = "inferred"
    /\ rm_transitions' = count_room_transitions(rm_window)
    /\ rm_pc' = "counted"
    /\ UNCHANGED << rm_flags, rm_prev, rm_window, rm_ret >>
    /\ UNCHANGED << debVars, ovenVars, sleepVars, candVars, thrVars, groupVars, pipeVars,
                    quietVars, traceVars, sysVars, mqttVars >>

RoomNext == RoomInfer \/ RoomCount

RECURSIVE ColumnSum(_, _, _, _)
\* win[col].sum() for a motion column over rows lo..hi
ColumnSum(d, room, lo, hi) ==
    IF lo > hi THEN 0
    ELSE motion(d, room, d.start + hi) + ColumnSum(d, room, lo, hi - 1)

\* the rows of df_local.iloc[lo : hi + 1]
SliceRows(d, lo, hi) == {i \in lo..hi : i >= 0 /\ i < d.len}

\* Mutant: the first window ends one row later.
FirstEndIdxLate == WINDOW_MIN

\* range(WINDOW_MIN - 1, len(df_local), HOP_MIN) starts here
FirstEndIdx == WINDOW_MIN - 1

\* make_features(win) for the window of rows lo..hi; oven_on_frac is in
\* units of 1 / WINDOW_MIN.
make_features(d, rooms, lo, hi) ==
    LET sums == [k \in 1..Len(ROOMS) |-> ColumnSum(d, ROOMS[k], lo, hi)]
        oven_on_min == Cardinality({i \in lo..hi :
                                       oven_power_w(d, d.start + i) > OVEN_W_THR})
        h == HourOf(d.start + hi)
    IN  [motion_sum |-> sums[1] + sums[2] + sums[3],
         unique_rooms |-> Cardinality({k \in 1..Len(ROOMS) : sums[k] > 0}),
         oven_on_time_min |-> oven_on_min,
         oven_on_frac |-> oven_on_min,
         room_transitions |-> count_room_transitions(SubSeq(rooms, lo + 1, hi + 1)),
         hour |-> h,
         is_quiet |-> is_quiet_hour(h)]

\* Mutant: no fallback to the first windows.
TrainIdxMorningOnly(ws) ==
    SelectSeq([i \in 1..Len(ws) |-> i], LAMBDA i : HourOf(ws[i]) < 12)

\* train_idx: the windows that end before noon, or the first 50 when
\* there are fewer than 10 of those
TrainIdx(ws) ==
    LET am == SelectSeq([i \in 1..Len(ws) |-> i], LAMBDA i : HourOf(ws[i]) < 12)
    IN  IF Len(am) < 10
        THEN [i \in 1..(IF Len(ws) < 50 THEN Len(ws) ELSE 50) |-> i]
        ELSE am

\* What the forest may answer: the same score for every window, or a
\* score that tells the windows with activity from the others.
ScoreModels == {"flat", "active", "calm"}

Busy(f) == f.motion_sum > 0 \/ f.room_transitions > 0 \/ f.oven_on_time_min > 0

anomaly_score(model, f) ==
    CASE model = "flat" -> 0
      [] model = "active" -> IF Busy(f) THEN 1 ELSE -1
      [] model = "calm" -> IF Busy(f) THEN -1 ELSE 0

\* the row handed to is_candidate_anomaly: score in thousandths, as the
\* threshold is
CandRow(r) == [r EXCEPT !.anomaly_score = 1000 * @]

\* Timestamp.isoformat(), t in seconds
isoformat(t) ==
    [day |-> t \div 86400, hh |-> (t % 86400) \div 3600, mm |-> (t % 3600) \div 60,
     ss |-> t % 60]

Digit == << "0", "1", "2", "3", "4", "5", "6", "7", "8", "9" >>
\* f"{n:02d}"
Fmt02d(n) == IF n < 10 THEN "0" \o Digit[n + 1]
             ELSE Digit[(n \div 10) + 1] \o Digit[(n % 10) + 1]

\* Mutant: the default household is written, not the argument.
normalize_alert_default(a, uuid, hh) ==
    [id |-> uuid,
     ts_start |-> isoformat(a.ts_start),
     ts_end |-> isoformat(a.ts_end),
     type |-> a.type,
     label |-> a.label,
     score |-> a.score,
     features |-> a.features,
     snoozed_until |-> None,
     ack_status |-> "new",
     household_id |-> "H1",
     policy_context |-> [quiet_hours |-> Fmt02d(QUIET_START) \o ":00-"
                                          \o Fmt02d(QUIET_END) \o ":00"]]

\* normalize_alert(a), uuid being the value of uuid.uuid4() in this call
\* and hh the household_id of the run
normalize_alert(a, uuid, hh) ==
    [id |-> uuid,
     ts_start |-> isoformat(a.ts_start),
     ts_end |-> isoformat(a.ts_end),
     type |-> a.type,
     label |-> a.label,
     score |-> a.score,
     features |-> a.features,
     snoozed_until |-> None,
     ack_status |-> "new",
     household_id |-> hh,
     policy_context |-> [quiet_hours |-> Fmt02d(QUIET_START) \o ":00-"
                                          \o Fmt02d(QUIET_END) \o ":00"]]

OvenStart == [streak |-> 0, off_streak |-> 0, on_start |-> None, alerts |-> << >>]
SleepStart == [in_sess |-> FALSE, s_start |-> None, sessions |-> << >>]
GroupStart == [cur |-> << >>, incidents |-> << >>]
NoFrame ==
    [has_index |-> FALSE, columns |-> {}, start |-> 0, len |-> 0,
     p_start |-> 0, p_end |-> 0, away |-> 0,
     turn_first |-> 0, turn_period |-> 1, turn_count |-> 0,
     w_start |-> 0, w_len |-> 0, w_mag |-> 0, o_start |-> 0, o_len |-> 0,
     o_dip |-> 0]
NoColumns == [k \in {ROOMS[j] : j \in 1..Len(ROOMS)} |-> << >>]
NoSource == [k \in {ROOMS[j] : j \in 1..Len(ROOMS)} |-> ""]

RECURSIVE OvenRange(_, _, _, _)
\* the loop "for t, w in p_series.items()" over items lo..hi, in halves
OvenRange(o, p_series, lo, hi) ==
    IF lo > hi THEN o
    ELSE IF lo = hi THEN OvenBody(o, p_series[lo][1], p_series[lo][2])
    ELSE LET mid  == (lo + hi) \div 2
             left == OvenRange(o, p_series, lo, mid)
         IN  IF left = left THEN OvenRange(left, p_series, mid + 1, hi) ELSE o

\* oven_left_on_guard(p_series), p_series the sequence of << t, w >>
oven_left_on_guard(p_series) == OvenRange(OvenStart, p_series, 1, Len(p_series)).alerts

RECURSIVE SleepScanRange(_, _, _, _)
\* the loop "for t, v in pressed.items()" over minutes lo..hi, in halves
SleepScanRange(c, d, lo, hi) ==
    IF lo > hi THEN c
    ELSE IF lo = hi THEN SleepScanBody(c, d, lo)
    ELSE LET mid  == (lo + hi) \div 2
             left == SleepScanRange(c, d, lo, mid)
         IN  IF left = left THEN SleepScanRange(left, d, mid + 1, hi) ELSE c

RECURSIVE SessionAlertsFrom(_, _, _)
\* the loop "for (s, e) in sessions" from session k
SessionAlertsFrom(d, all, k) ==
    IF k > Len(all) THEN << >>
    ELSE SessionAlerts(d, all[k][1], all[k][2]) \o SessionAlertsFrom(d, all, k + 1)

\* sleep_sessions_from_bed(d): the scan, the session left open at the last
\* row, then the alerts of each session
sleep_sessions_from_bed(d) ==
    LET scan == SleepScanRange(SleepStart, d, d.start, d.start + d.len - 1)
        all  == IF scan.in_sess /\ scan.s_start # None
                THEN Append(scan.sessions, << scan.s_start, (d.start + d.len - 1) + 1 >>)
                ELSE scan.sessions
    IN  SessionAlertsFrom(d, all, 1)

RECURSIVE GroupRange(_, _, _, _)
\* the loop "for _, row in df_anom.iterrows()" over rows lo..hi, in halves
GroupRange(g, rows, lo, hi) ==
    IF lo > hi THEN g
    ELSE IF lo = hi THEN GroupBody(g, rows[lo])
    ELSE LET mid  == (lo + hi) \div 2
             left == GroupRange(g, rows, lo, mid)
         IN  IF left = left THEN GroupRange(left, rows, mid + 1, hi) ELSE g

\* group_anomaly_incidents(rows)
group_anomaly_incidents(rows) ==
    LET g    == GroupRange(GroupStart, rows, 1, Len(rows))
        incs == IF g.cur # << >> THEN Append(g.incidents, g.cur) ELSE g.incidents
    IN  [k \in 1..Len(incs) |-> IncidentAlert(incs[k])]

\* A variant that carries the last known room across the rows with no
\* active room.
TraceBodyCarry(c, pres, i) ==
    LET cr == infer_current_room([r \in DOMAIN pres |-> pres[r][i]], c.prev_r)
    IN  [prev_r |-> IF cr = NoRoom THEN c.prev_r ELSE cr,
         current_rooms |-> Append(c.current_rooms, cr)]

\* One iteration of "for _, row in df_local.iterrows()" of step 2, at row i.
TraceBody(c, pres, i) ==
    LET cr == infer_current_room([r \in DOMAIN pres |-> pres[r][i]], c.prev_r)
    IN  [prev_r |-> cr, current_rooms |-> Append(c.current_rooms, cr)]

RECURSIVE TraceRange(_, _, _, _)
\* that loop over rows lo..hi, in halves
TraceRange(c, pres, lo, hi) ==
    IF lo > hi THEN c
    ELSE IF lo = hi THEN TraceBody(c, pres, lo)
    ELSE LET mid  == (lo + hi) \div 2
             left == TraceRange(c, pres, lo, mid)
         IN  IF left = left THEN TraceRange(left, pres, mid + 1, hi) ELSE c

\* step 2: the column current_room
RoomTrace(pres, len) ==
    TraceRange([prev_r |-> NoRoom, current_rooms |-> << >>], pres, 1, len).current_rooms

\* list(range(WINDOW_MIN - 1, len(df_local), HOP_MIN))
EndIdxs(len) ==
    LET n == IF len - 1 < FirstEndIdx THEN 0 ELSE ((len - 1 - FirstEndIdx) \div HOP_MIN) + 1
    IN  [k \in 1..n |-> FirstEndIdx + (k - 1) * HOP_MIN]

\* the end_idx whose window has WINDOW_MIN rows
FullEndIdxs(d) ==
    SelectSeq(EndIdxs(d.len),
              LAMBDA e : Cardinality(SliceRows(d, e - (WINDOW_MIN - 1), e)) = WINDOW_MIN)

\* A variant in which df_local is the caller's table itself.
InputAfterAssignShared(d, cols) == [d EXCEPT !.columns = cols]

\* df_local = df_input.copy() is a table of its own: the caller's table d
\* after columns were assigned to df_local, which then has the columns cols.
InputAfterAssign(d, cols) == d

PipeRest ==
    /\ pipe_pc = "start"
    /\ raised = ""
    /\ df_local = [columns |-> {}]
    /\ raw_source = NoSource
    /\ present = NoColumns
    /\ current_rooms = << >>
    /\ windows = << >>
    /\ win_rows = << >>
    /\ feature_rows = << >>
    /\ train_idx = << >>
    /\ pipe_X = << >>
    /\ guard_alerts = << >>
    /\ sleep_alerts = << >>
    /\ anomaly_incidents = << >>
    /\ uuid_count = 0
    /\ pipe_alerts = << >>
    /\ out_file = << >>
    /\ returned = << >>

\* The call run_pipeline_from_df(df_input, save_output, household_id=...).
PipeInit ==
    /\ \E c \in PipeCalls :
         /\ df_input = c.df
         /\ save_output = c.save_output
         /\ household_id = c.household_id
    /\ PipeRest

PipeIdle ==
    /\ df_input = NoFrame
    /\ save_output = FALSE
    /\ household_id = ""
    /\ PipeRest

\* validate_input_dataframe(df_input), then df_local = df_input.copy()
PipeValidate ==
    /\ pipe_pc = "start"
    /\ raised' = validate_input_dataframe(df_input)
    /\ IF validate_input_dataframe(df_input) # ""
       THEN /\ pipe_pc' = "raised"
            /\ df_local' = df_local
       ELSE /\ pipe_pc' = "presence"
            /\ df_local' = [columns |-> df_input.columns]
    /\ UNCHANGED << pipeArgs, raw_source, present, current_rooms, pipeWins, pipeOut >>
    /\ UNCHANGED << debVars, ovenVars, sleepVars, candVars, thrVars, groupVars,
                    quietVars, roomVars, traceVars, sysVars, mqttVars >>

\* Step 1: a raw presence column for each room that has none, then the
\* debounced presence of each room.
PipePresence ==
    /\ pipe_pc = "presence"
    /\ LET src == [r \in DOMAIN raw_source |->
                     IF RawCol(r) \in df_local.columns THEN "input" ELSE "motion"]
       IN  /\ raw_source' = src
           /\ present' = [r \in DOMAIN present |->
                            debounce_series([i \in 1..df_input.len |->
                                                present_raw(df_input, src, r,
                                                            df_input.start + i - 1)],
                                            DEBOUNCE_STABLE_REQ)]
    /\ LET cols == df_local.columns \cup RawCols
                        \cup {PresentCol(ROOMS[k]) : k \in 1..Len(ROOMS)}
       IN  /\ df_local' = [columns |-> cols]
           /\ df_input' = InputAfterAssign(df_input, cols)
    /\ pipe_pc' = "trace"
    /\ UNCHANGED << save_output, household_id, raised, current_rooms, pipeWins, pipeOut >>
    /\ UNCHANGED << debVars, ovenVars, sleepVars, candVars, thrVars, groupVars,
                    quietVars, roomVars, traceVars, sysVars, mqttVars >>

\* Step 2: the current-room trace.
PipeTrace ==
    /\ pipe_pc = "trace"
    /\ current_rooms' = RoomTrace(present, df_input.len)
    /\ df_local' = [columns |-> df_local.columns \cup {"current_room"}]
    /\ df_input' = InputAfterAssign(df_input, df_local.columns \cup {"current_room"})
    /\ pipe_pc' = "window"
    /\ UNCHANGED << save_output, household_id, raised, raw_source, present, pipeWins,
                    pipeOut >>
    /\ UNCHANGED << debVars, ovenVars, sleepVars, candVars, thrVars, groupVars,
                    quietVars, roomVars, traceVars, sysVars, mqttVars >>

\* Step 3: the windows and their features; "return []" if there is none.
\* win_rows keeps the rows of each window.
PipeWindows ==
    /\ pipe_pc = "window"
    /\ LET ends == FullEndIdxs(df_input)
       IN  /\ windows' = [k \in 1..Len(ends) |-> df_input.start + ends[k]]
           /\ win_rows' = [k \in 1..Len(ends) |->
                             SliceRows(df_input, ends[k] - (WINDOW_MIN - 1), ends[k])]
           /\ feature_rows' = [k \in 1..Len(ends) |->
                                 make_features(df_input, current_rooms,
                                               ends[k] - (WINDOW_MIN - 1), ends[k])]
           /\ pipe_pc' = IF Len(ends) = 0 THEN "done" ELSE "features"
    /\ UNCHANGED << pipeArgs, raised, pipeFrame, train_idx, pipe_X, pipeOut >>
    /\ UNCHANGED << debVars, ovenVars, sleepVars, candVars, thrVars, groupVars,
                    quietVars, roomVars, traceVars, sysVars, mqttVars >>

\* Step 4: the training subset and the scores of the forest.
PipeScore ==
    /\ pipe_pc = "features"
    /\ train_idx' = TrainIdx(windows)
    /\ \E model \in ScoreModels :
         pipe_X' = [i \in 1..Len(windows) |->
                      [ts |-> windows[i],
                       motion_sum |-> feature_rows[i].motion_sum,
                       unique_rooms |-> feature_rows[i].unique_rooms,
                       oven_on_time_min |-> feature_rows[i].oven_on_time_min,
                       oven_on_frac |-> feature_rows[i].oven_on_frac,
                       room_transitions |-> feature_rows[i].room_transitions,
                       hour |-> feature_rows[i].hour,
                       is_quiet |-> feature_rows[i].is_quiet,
                       anomaly_score |-> anomaly_score(model, feature_rows[i]),
                       threshold |-> 0,
                       is_candidate |-> FALSE]]
    /\ pipe_pc' = "scored"
    /\ UNCHANGED << pipeArgs, raised, pipeFrame, windows, win_rows, feature_rows, pipeOut >>
    /\ UNCHANGED << debVars, ovenVars, sleepVars, candVars, thrVars, groupVars,
                    quietVars, roomVars, traceVars, sysVars, mqttVars >>

\* Steps 5 and 6: the threshold column, then the is_candidate column.
PipeCandidates ==
    /\ pipe_pc = "scored"
    /\ LET byHour == ThrByHour(pipe_X, ANOM_PCTL_PER_MILLE)
           thr(i) == ThrGet(byHour, pipe_X[i].hour, GlobalThr(pipe_X, ANOM_PCTL_PER_MILLE))
       IN  pipe_X' = [i \in 1..Len(pipe_X) |->
                        [pipe_X[i] EXCEPT
                            !.threshold = thr(i),
                            !.is_candidate =
                                IsCandidateAnomaly(CandRow([pipe_X[i] EXCEPT
                                                               !.threshold = thr(i)]))]]
    /\ pipe_pc' = "guards"
    /\ UNCHANGED << pipeArgs, raised, pipeFrame, windows, win_rows, feature_rows, train_idx,
                    pipeOut >>
    /\ UNCHANGED << debVars, ovenVars, sleepVars, candVars, thrVars, groupVars,
                    quietVars, roomVars, traceVars, sysVars, mqttVars >>

\* Step 7: the oven guard and the sleep detector.
PipeGuards ==
    /\ pipe_pc = "guards"
    /\ guard_alerts' = oven_left_on_guard(
                           [i \in 1..df_input.len |->
                               << (df_input.start + i - 1) * 60,
                                  oven_power_w(df_input, df_input.start + i - 1) >>])
    /\ sleep_alerts' = sleep_sessions_from_bed(df_input)
    /\ pipe_pc' = "group"
    /\ UNCHANGED << pipeArgs, raised, pipeFrame, pipeWins, anomaly_incidents, uuid_count,
                    pipe_alerts, out_file, returned >>
    /\ UNCHANGED << debVars, ovenVars, sleepVars, candVars, thrVars, groupVars,
                    quietVars, roomVars, traceVars, sysVars, mqttVars >>

\* cand = X[X["is_candidate"]], ts in seconds
Cand ==
    LET sel == SelectSeq(pipe_X, LAMBDA r : r.is_candidate)
    IN  [i \in 1..Len(sel) |-> [sel[i] EXCEPT !.ts = @ * 60]]

\* Step 8: the incidents of the candidate windows.
PipeGroup ==
    /\ pipe_pc = "group"
    /\ anomaly_incidents' = group_anomaly_incidents(Cand)
    /\ pipe_pc' = "normalize"
    /\ UNCHANGED << pipeArgs, raised, pipeFrame, pipeWins, guard_alerts, sleep_alerts,
                    uuid_count, pipe_alerts, out_file, returned >>
    /\ UNCHANGED << debVars, ovenVars, sleepVars, candVars, thrVars, groupVars,
                    quietVars, roomVars, traceVars, sysVars, mqttVars >>

\* Step 9: alerts = [normalize_alert(a) for a in guard + anomaly + sleep].
PipeNormalize ==
    /\ pipe_pc = "normalize"
    /\ LET all == guard_alerts \o anomaly_incidents \o sleep_alerts
       IN  /\ pipe_alerts' = [k \in 1..Len(all) |->
                                normalize_alert(all[k], uuid_count + k, household_id)]
           /\ uuid_count' = uuid_count + Len(all)
    /\ pipe_pc' = "save"
    /\ UNCHANGED << pipeArgs, raised, pipeFrame, pipeWins, guard_alerts, sleep_alerts,
                    anomaly_incidents, out_file, returned >>
    /\ UNCHANGED << debVars, ovenVars, sleepVars, candVars, thrVars, groupVars,
                    quietVars, roomVars, traceVars, sysVars, mqttVars >>

\* Step 10: the alerts are written if save_output is set, and returned.
PipeSaveReturn ==
    /\ pipe_pc = "save"
    /\ out_file' = IF save_output THEN Append(out_file, [alerts |-> pipe_alerts]) ELSE out_file
    /\ returned' = pipe_alerts
    /\ pipe_pc' = "done"
    /\ UNCHANGED << pipeArgs, raised, pipeFrame, pipeWins, guard_alerts, sleep_alerts,
                    anomaly_incidents, uuid_count, pipe_alerts >>
    /\ UNCHANGED << debVars, ovenVars, sleepVars, candVars, thrVars, groupVars,
                    quietVars, roomVars, traceVars, sysVars, mqttVars >>

PipeNext ==
    \/ PipeValidate \/ PipePresence \/ PipeTrace \/ PipeWindows \/ PipeScore
    \/ PipeCandidates \/ PipeGuards \/ PipeGroup \/ PipeNormalize \/ PipeSaveReturn

(***************************************************************************)
(* Steps 1 and 2 of run_pipeline_from_df on a table of raw presence: the   *)
(* debounced presence of each room, then the current-room trace, one row   *)
(* of "for _, row in df_local.iterrows()" at a time.                       *)
(***************************************************************************)
\* df_local["{room}_present_raw"] of the tables tried: every 0/1 column for
\* the hall and the kitchen, the bedroom always or never occupied.
RawTables ==
    {[r \in RoomSet |-> CASE r = "hall" -> h [] r = "kitchen" -> k
                           [] OTHER -> [i \in 1..TraceRows |-> b]] :
        h \in [1..TraceRows -> {0, 1}], k \in [1..TraceRows -> {0, 1}], b \in {0, 1}}

TraceInit ==
    /\ tr_raw \in RawTables
    /\ tr_present = [r \in RoomSet |-> << >>]
    /\ tr_prev = NoRoom
    /\ tr_rooms = << >>
    /\ tr_pc = "presence"

TraceIdle ==
    /\ tr_raw = [r \in RoomSet |-> << >>]
    /\ tr_present = [r \in RoomSet |-> << >>]
    /\ tr_prev = NoRoom
    /\ tr_rooms = << >>
    /\ tr_pc = "idle"

\* Step 1: df_local["{room}_present"] = debounce_series(...) for each room;
\* then current_rooms = [], prev_r = None.
TracePresence ==
    /\ tr_pc = "presence"
    /\ tr_present' = [r \in RoomSet |-> debounce_series(tr_raw[r], DEBOUNCE_STABLE_REQ)]
    /\ tr_prev' = NoRoom
    /\ tr_rooms' = << >>
    /\ tr_pc' = "trace"
    /\ UNCHANGED tr_raw
    /\ UNCHANGED << debVars, ovenVars, sleepVars, candVars, thrVars, groupVars, pipeVars,
                    quietVars, roomVars, sysVars, mqttVars >>

\* Step 2: one iteration of the loop over the rows.
TraceRow ==
    /\ tr_pc = "trace"
    /\ LET c == TraceBody([prev_r |-> tr_prev, current_rooms |-> tr_rooms], tr_present,
                          Len(tr_rooms) + 1)
       IN  /\ tr_prev' = c.prev_r
           /\ tr_rooms' = c.current_rooms
           /\ tr_pc' = IF Len(c.current_rooms) = TraceRows THEN "done" ELSE "trace"
    /\ UNCHANGED << tr_raw, tr_present >>
    /\ UNCHANGED << debVars, ovenVars, sleepVars, candVars, thrVars, groupVars, pipeVars,
                    quietVars, roomVars, sysVars, mqttVars >>

TraceNext == TracePresence \/ TraceRow

(***************************************************************************)
(* IoTMLSystemLocal (step4_integrated_system.py): the simulator thread     *)
(* puts samples on data_queue, the processor thread takes them one at a    *)
(* time.  A sample is the number of its put: the content of a reading      *)
(* plays no part in the buffer or in the switch of mode.  sys_elapsed      *)
(* says that the training duration of the configuration has passed since   *)
(* training_start.  The model is None or the version it was fitted as;     *)
(* model_latest is the content of models/model_latest.pkl.  last_train is  *)
(* what the handling of the last sample did with _train_model.  Of the     *)
(* state file the mode, training_start and training_samples are kept; the  *)
(* anomaly log and what only the detection of normal mode writes are left  *)
(* out.                                                                    *)
(***************************************************************************)
\* config['training']['min_samples'] of the configurations tried
MinSamplesVals == {10, 25, DEFAULT_MIN_SAMPLES}

\* A variant that keeps the oldest entries.
BufferAppendOldest(buf, data) ==
    LET b == Append(buf, data)
    IN  IF Len(b) > BUFFER_MAX THEN SubSeq(b, 1, BUFFER_KEEP) ELSE b

\* self.sensor_buffer.append(data), then the cut to the last BUFFER_KEEP
\* entries
BufferAppend(buf, data) ==
    LET b == Append(buf, data)
    IN  IF Len(b) > BUFFER_MAX THEN SubSeq(b, Len(b) - BUFFER_KEEP + 1, Len(b)) ELSE b

\* A variant that tests the sample count for equality.
should_complete_training_once(n, cfg, st, elapsed) ==
    \/ n = cfg.min_samples
    \/ st.training_start /\ elapsed

\* _should_complete_training, n = len(self.training_data)
should_complete_training(n, cfg, st, elapsed) ==
    \/ n >= cfg.min_samples
    \/ st.training_start /\ elapsed

\* len(range(0, n - window_size, 5)), the windows of _train_model
train_windows(n) ==
    IF n - TRAIN_WINDOW_SIZE <= 0 THEN 0
    ELSE ((n - TRAIN_WINDOW_SIZE - 1) \div TRAIN_WINDOW_HOP) + 1

\* _train_model on n training samples: what it returns and why
train_model(n) ==
    IF n < MIN_TRAIN_SAMPLES THEN "few_samples"
    ELSE IF train_windows(n) < MIN_TRAIN_WINDOWS THEN "few_windows"
    ELSE "ok"

\* A variant that switches to normal mode whatever _train_model returned.
complete_training_always(y, n) ==
    IF train_model(n) = "ok"
    THEN [mode |-> "normal",
          state |-> [y.state EXCEPT !.mode = "normal"],
          model |-> y.model_version + 1,
          model_version |-> y.model_version + 1,
          model_latest |-> y.model_version + 1]
    ELSE [y EXCEPT !.mode = "normal", !.state.mode = "normal"]

\* _complete_training with n training samples, on the fields it may write
complete_training(y, n) ==
    IF train_model(n) = "ok"
    THEN [mode |-> "normal",
          state |-> [y.state EXCEPT !.mode = "normal"],
          model |-> y.model_version + 1,
          model_version |-> y.model_version + 1,
          model_latest |-> y.model_version + 1]
    ELSE y

\* After __init__: the mode is the one of system_state.json, "training" in
\* a new state; with a state in normal mode the model file, of version 1,
\* may be there or not.
SysInit ==
    /\ sys_config \in [min_samples : MinSamplesVals]
    /\ \E m \in {"training", "normal"}, ts \in BOOLEAN :
         /\ sys_mode = m
         /\ sys_state = [mode |-> m, training_start |-> ts, training_samples |-> 0]
    /\ model_latest \in IF sys_mode = "normal" THEN {None, 1} ELSE {None}
    /\ sensor_buffer = << >>
    /\ training_data = << >>
    /\ data_queue = << >>
    /\ sys_model = None
    /\ model_version = 0
    /\ sys_running = FALSE
    /\ sys_threads = "none"
    /\ sys_elapsed = FALSE
    /\ sys_produced = 0
    /\ last_train = "none"

SysIdle ==
    /\ sys_mode = "training"
    /\ sys_state = [mode |-> "training", training_start |-> FALSE, training_samples |-> 0]
    /\ sys_config = [min_samples |-> 0]
    /\ sensor_buffer = << >>
    /\ training_data = << >>
    /\ data_queue = << >>
    /\ sys_model = None
    /\ model_version = 0
    /\ model_latest = None
    /\ sys_running = FALSE
    /\ sys_threads = "idle"
    /\ sys_elapsed = FALSE
    /\ sys_produced = 0
    /\ last_train = "idle"

\* start(): training_start is set in training mode; in normal mode the
\* model is loaded, and the system falls back to training if there is none.
SysStart ==
    /\ sys_threads = "none"
    /\ IF sys_mode = "normal" /\ model_latest # None
       THEN /\ sys_model' = model_latest
            /\ model_version' = model_latest
            /\ UNCHANGED << sys_mode, sys_state >>
       ELSE /\ sys_mode' = "training"
            /\ sys_state' = [sys_state EXCEPT !.mode = "training", !.training_start = TRUE]
            /\ UNCHANGED << sys_model, model_version >>
    /\ sys_running' = TRUE
    /\ sys_threads' = "alive"
    /\ UNCHANGED << sys_config, sensor_buffer, training_data, data_queue, model_latest,
                    sys_elapsed, sys_produced, last_train >>
    /\ UNCHANGED << debVars, ovenVars, sleepVars, candVars, thrVars, groupVars, pipeVars,
                    quietVars, roomVars, traceVars, mqttVars >>

\* reset() of a system that was not started
SysReset ==
    /\ sys_threads = "none"
    /\ sys_mode = "normal"
    /\ sys_mode' = "training"
    /\ training_data' = << >>
    /\ sys_model' = None
    /\ model_version' = 0
    /\ sys_state' = [mode |-> "training", training_start |-> FALSE, training_samples |-> 0]
    /\ UNCHANGED << sys_config, sensor_buffer, data_queue, model_latest, sys_running,
                    sys_threads, sys_elapsed, sys_produced, last_train >>
    /\ UNCHANGED << debVars, ovenVars, sleepVars, candVars, thrVars, groupVars, pipeVars,
                    quietVars, roomVars, traceVars, mqttVars >>

\* _simulate_sensors: one self.data_queue.put(data)
SysSimulate ==
    /\ sys_threads = "alive"
    /\ sys_running
    /\ sys_produced < MaxProduced
    /\ Len(data_queue) < MaxQueue
    /\ sys_produced' = sys_produced + 1
    /\ data_queue' = Append(data_queue, sys_produced + 1)
    /\ UNCHANGED << sys_mode, sys_state, sys_config, sensor_buffer, training_data, sys_model,
                    model_version, model_latest, sys_running, sys_threads, sys_elapsed,
                    last_train >>
    /\ UNCHANGED << debVars, ovenVars, sleepVars, candVars, thrVars, groupVars, pipeVars,
                    quietVars, roomVars, traceVars, mqttVars >>

\* The training duration passes, within the first ElapseBy samples or not
\* within the run.
SysElapse ==
    /\ sys_threads = "alive"
    /\ sys_mode = "training"
    /\ ~sys_elapsed
    /\ sys_produced <= ElapseBy
    /\ sys_elapsed' = TRUE
    /\ UNCHANGED << sys_mode, sys_state, sys_config, sensor_buffer, training_data, data_queue,
                    sys_model, model_version, model_latest, sys_running, sys_threads,
                    sys_produced, last_train >>
    /\ UNCHANGED << debVars, ovenVars, sleepVars, candVars, thrVars, groupVars, pipeVars,
                    quietVars, roomVars, traceVars, mqttVars >>

\* One iteration of the loop of _process_data that finds a sample: the
\* buffer, then _process_training_data or _process_normal_data.
SysProcess ==
    /\ sys_threads = "alive"
    /\ sys_running
    /\ data_queue # << >>
    /\ LET data == Head(data_queue)
           td   == Append(training_data, data)
           st   == [sys_state EXCEPT !.training_samples = Len(td)]
           y    == [mode |-> sys_mode, state |-> st, model |-> sys_model,
                    model_version |-> model_version, model_latest |-> model_latest]
           try  == should_complete_training(Len(td), sys_config, st, sys_elapsed)
           z    == IF try THEN complete_training(y, Len(td)) ELSE y
       IN  /\ data_queue' = Tail(data_queue)
           /\ sensor_buffer' = BufferAppend(sensor_buffer, data)
           /\ IF sys_mode = "training"
              THEN /\ training_data' = td
                   /\ sys_mode' = z.mode
                   /\ sys_state' = z.state
                   /\ sys_model' = z.model
                   /\ model_version' = z.model_version
                   /\ model_latest' = z.model_latest
                   /\ last_train' = IF try THEN train_model(Len(td)) ELSE "not_tried"
              ELSE /\ last_train' = "not_tried"
                   /\ UNCHANGED << training_data, sys_mode, sys_state, sys_model,
                                   model_version, model_latest >>
    /\ UNCHANGED << sys_config, sys_running, sys_threads, sys_elapsed, sys_produced >>
    /\ UNCHANGED << debVars, ovenVars, sleepVars, candVars, thrVars, groupVars, pipeVars,
                    quietVars, roomVars, traceVars, mqttVars >>

\* stop(): the two loops end
SysStop ==
    /\ sys_threads = "alive"
    /\ sys_running
    /\ sys_running' = FALSE
    /\ sys_threads' = "joined"
    /\ UNCHANGED << sys_mode, sys_state, sys_config, sensor_buffer, training_data, data_queue,
                    sys_model, model_version, model_latest, sys_elapsed, sys_produced,
                    last_train >>
    /\ UNCHANGED << debVars, ovenVars, sleepVars, candVars, thrVars, groupVars, pipeVars,
                    quietVars, roomVars, traceVars, mqttVars >>

SysNext == SysStart \/ SysReset \/ SysSimulate \/ SysElapse \/ SysProcess \/ SysStop

(***************************************************************************)
(* Component: MQTTSimulator (step2_mqtt_simulator.py)                      *)
(***************************************************************************)
\* Bounds of the simulator runs
MaxPublished == 2
MaxSubs == 2

\* Topic and pattern strings, as the sequences of their characters
TopicStrings == { <<"a", "/", "b">>, <<"c", "/", "b">>, <<"a">> }
PatternStrings == { <<"a", "/", "+">>, <<"+", "/", "b">>, <<"+">> }
Callbacks == {"on_message", "anomaly_callback"}

\* str.split('/')
RECURSIVE split(_)
split(str) ==
    IF \A i \in 1..Len(str) : str[i] # "/"
    THEN << str >>
    ELSE LET k == CHOOSE i \in 1..Len(str) :
                      str[i] = "/" /\ \A j \in 1..(i - 1) : str[j] # "/"
         IN  << SubSeq(str, 1, k - 1) >> \o split(SubSeq(str, k + 1, Len(str)))

\* A variant without the test of the two lengths: zip stops at the shorter
\* list.
topic_matches_zip(pattern, topic) ==
    LET pattern_parts == split(pattern)
        topic_parts   == split(topic)
        n == IF Len(pattern_parts) <= Len(topic_parts) THEN Len(pattern_parts)
             ELSE Len(topic_parts)
    IN  \A i \in 1..n :
            ~(pattern_parts[i] # << "+" >> /\ pattern_parts[i] # topic_parts[i])

\* _topic_matches
topic_matches(pattern, topic) ==
    LET pattern_parts == split(pattern)
        topic_parts   == split(topic)
    IN  IF Len(pattern_parts) # Len(topic_parts) THEN FALSE
        ELSE \A i \in 1..Len(pattern_parts) :
                 ~(pattern_parts[i] # << "+" >> /\ pattern_parts[i] # topic_parts[i])

\* self.subscribers[topic] = callback on a dict, kept as the list of its
\* items in insertion order: a key that is there keeps its place.
dict_set(items, pattern, callback) ==
    IF \E i \in 1..Len(items) : items[i].pattern = pattern
    THEN [i \in 1..Len(items) |->
             IF items[i].pattern = pattern
             THEN [pattern |-> pattern, callback |-> callback] ELSE items[i]]
    ELSE Append(items, [pattern |-> pattern, callback |-> callback])

\* The calls the loop over self.subscribers.items() makes for one message,
\* from item i on.
RECURSIVE calls_from(_, _, _)
calls_from(items, message, i) ==
    IF i > Len(items) THEN << >>
    ELSE (IF topic_matches(items[i].pattern, message.topic)
          THEN << [msg |-> message.id, pattern |-> items[i].pattern,
                   callback |-> items[i].callback] >>
          ELSE << >>) \o calls_from(items, message, i + 1)

\* self.message_queue.put(message); the message carries its rank among the
\* published messages
put_message(topic) ==
    /\ mq_published' = Append(mq_published, topic)
    /\ message_queue' = Append(message_queue, [id |-> Len(mq_published) + 1, topic |-> topic])

\* After __init__
MqttInit ==
    /\ mq_running = FALSE
    /\ mq_thread = "none"
    /\ message_queue = << >>
    /\ subscribers = << >>
    /\ mq_published = << >>
    /\ mq_calls = << >>

MqttIdle ==
    /\ mq_running = FALSE
    /\ mq_thread = "idle"
    /\ message_queue = << >>
    /\ subscribers = << >>
    /\ mq_published = << >>
    /\ mq_calls = << >>

\* subscribe(), called before start() as LocalDataCollector.start and
\* simulate_anomaly_scenario do
MqttSubscribe ==
    /\ mq_thread = "none"
    /\ \E pattern \in PatternStrings, callback \in Callbacks :
         /\ Len(dict_set(subscribers, pattern, callback)) <= MaxSubs
         /\ subscribers' = dict_set(subscribers, pattern, callback)
    /\ UNCHANGED << mq_running, mq_thread, message_queue, mq_published, mq_calls >>
    /\ UNCHANGED << debVars, ovenVars, sleepVars, candVars, thrVars, groupVars, pipeVars,
                    quietVars, roomVars, traceVars, sysVars >>

\* publish() by the caller of the simulator
MqttPublish ==
    /\ Len(mq_published) < MaxPublished
    /\ \E topic \in TopicStrings : put_message(topic)
    /\ UNCHANGED << mq_running, mq_thread, subscribers, mq_calls >>
    /\ UNCHANGED << debVars, ovenVars, sleepVars, candVars, thrVars, groupVars, pipeVars,
                    quietVars, roomVars, traceVars, sysVars >>

\* start()
MqttStart ==
    /\ mq_thread = "none"
    /\ mq_running' = TRUE
    /\ mq_thread' = "top"
    /\ UNCHANGED << message_queue, subscribers, mq_published, mq_calls >>
    /\ UNCHANGED << debVars, ovenVars, sleepVars, candVars, thrVars, groupVars, pipeVars,
                    quietVars, roomVars, traceVars, sysVars >>

\* stop(): the flag; the thread ends at its next test of the flag
MqttStop ==
    /\ mq_thread \in {"top", "process"}
    /\ mq_running
    /\ mq_running' = FALSE
    /\ UNCHANGED << mq_thread, message_queue, subscribers, mq_published, mq_calls >>
    /\ UNCHANGED << debVars, ovenVars, sleepVars, candVars, thrVars, groupVars, pipeVars,
                    quietVars, roomVars, traceVars, sysVars >>

\* _run_simulation: the test of the flag, then _generate_sensor_data, which
\* publishes a reading or none
MqttLoopTop ==
    /\ mq_thread = "top"
    /\ IF mq_running
       THEN /\ mq_thread' = "process"
            /\ \/ UNCHANGED << message_queue, mq_published >>
               \/ /\ Len(mq_published) < MaxPublished
                  /\ \E topic \in TopicStrings : put_message(topic)
       ELSE /\ mq_thread' = "exited"
            /\ UNCHANGED << message_queue, mq_published >>
    /\ UNCHANGED << mq_running, subscribers, mq_calls >>
    /\ UNCHANGED << debVars, ovenVars, sleepVars, candVars, thrVars, groupVars, pipeVars,
                    quietVars, roomVars, traceVars, sysVars >>

\* _process_messages: one iteration of its loop on a queue that is not
\* empty
MqttDeliver ==
    /\ mq_thread = "process"
    /\ message_queue # << >>
    /\ message_queue' = Tail(message_queue)
    /\ mq_calls' = mq_calls \o calls_from(subscribers, Head(message_queue), 1)
    /\ UNCHANGED << mq_running, mq_thread, subscribers, mq_published >>
    /\ UNCHANGED << debVars, ovenVars, sleepVars, candVars, thrVars, groupVars, pipeVars,
                    quietVars, roomVars, traceVars, sysVars >>

\* _process_messages finds the queue empty; time.sleep
MqttSleep ==
    /\ mq_thread = "process"
    /\ message_queue = << >>
    /\ mq_thread' = "top"
    /\ UNCHANGED << mq_running, message_queue, subscribers, mq_published, mq_calls >>
    /\ UNCHANGED << debVars, ovenVars, sleepVars, candVars, thrVars, groupVars, pipeVars,
                    quietVars, roomVars, traceVars, sysVars >>

MqttNext ==
    \/ MqttSubscribe \/ MqttPublish \/ MqttStart \/ MqttStop
    \/ MqttLoopTop \/ MqttDeliver \/ MqttSleep

(***************************************************************************)
(* Specifications                                                          *)
(***************************************************************************)
InitDebounce == DebInit /\ OvenIdle /\ SleepIdle /\ CandIdle /\ ThrIdle /\ GroupIdle
    /\ PipeIdle /\ QuietIdle /\ RoomIdle /\ TraceIdle /\ SysIdle /\ MqttIdle
SpecDebounce == InitDebounce /\ [][DebNext]_vars

InitOven == OvenInit /\ DebIdle /\ SleepIdle /\ CandIdle /\ ThrIdle /\ GroupIdle
    /\ PipeIdle /\ QuietIdle /\ RoomIdle /\ TraceIdle /\ SysIdle /\ MqttIdle
SpecOven == InitOven /\ [][OvenNext]_vars

InitSleep == SleepInit /\ DebIdle /\ OvenIdle /\ CandIdle /\ ThrIdle /\ GroupIdle
    /\ PipeIdle /\ QuietIdle /\ RoomIdle /\ TraceIdle /\ SysIdle /\ MqttIdle
SpecSleep == InitSleep /\ [][SleepNext]_vars

InitCand == CandInit /\ DebIdle /\ OvenIdle /\ SleepIdle /\ ThrIdle /\ GroupIdle
    /\ PipeIdle /\ QuietIdle /\ RoomIdle /\ TraceIdle /\ SysIdle /\ MqttIdle
SpecCand == InitCand /\ [][CandNext]_vars

InitThr == ThrInit /\ DebIdle /\ OvenIdle /\ SleepIdle /\ CandIdle /\ GroupIdle
    /\ PipeIdle /\ QuietIdle /\ RoomIdle /\ TraceIdle /\ SysIdle /\ MqttIdle
SpecThr == InitThr /\ [][ThrNext]_vars

InitGroup == GroupInit /\ DebIdle /\ OvenIdle /\ SleepIdle /\ CandIdle /\ ThrIdle
    /\ PipeIdle /\ QuietIdle /\ RoomIdle /\ TraceIdle /\ SysIdle /\ MqttIdle
SpecGroup == InitGroup /\ [][GroupNext]_vars

InitQuiet == QuietInit /\ DebIdle /\ OvenIdle /\ SleepIdle /\ CandIdle /\ ThrIdle /\ GroupIdle
    /\ PipeIdle /\ RoomIdle /\ TraceIdle /\ SysIdle /\ MqttIdle
SpecQuiet == InitQuiet /\ [][QuietNext]_vars

InitRoom == RoomInit /\ DebIdle /\ OvenIdle /\ SleepIdle /\ CandIdle /\ ThrIdle /\ GroupIdle
    /\ PipeIdle /\ QuietIdle /\ TraceIdle /\ SysIdle /\ MqttIdle
SpecRoom == InitRoom /\ [][RoomNext]_vars

InitPipe == PipeInit /\ DebIdle /\ OvenIdle /\ SleepIdle /\ CandIdle /\ ThrIdle /\ GroupIdle
    /\ QuietIdle /\ RoomIdle /\ TraceIdle /\ SysIdle /\ MqttIdle
SpecPipe == InitPipe /\ [][PipeNext]_vars

InitTrace == TraceInit /\ DebIdle /\ OvenIdle /\ SleepIdle /\ CandIdle /\ ThrIdle /\ GroupIdle
    /\ PipeIdle /\ QuietIdle /\ RoomIdle /\ SysIdle /\ MqttIdle
SpecTrace == InitTrace /\ [][TraceNext]_vars

InitSys == SysInit /\ DebIdle /\ OvenIdle /\ SleepIdle /\ CandIdle /\ ThrIdle /\ GroupIdle
    /\ PipeIdle /\ QuietIdle /\ RoomIdle /\ TraceIdle /\ MqttIdle
SpecSys == InitSys /\ [][SysNext]_vars

\* The two threads are scheduled again and again while the system runs.
SpecSysLive == SpecSys /\ WF_vars(SysSimulate) /\ WF_vars(SysProcess)

InitMqtt == MqttInit /\ DebIdle /\ OvenIdle /\ SleepIdle /\ CandIdle /\ ThrIdle /\ GroupIdle
    /\ PipeIdle /\ QuietIdle /\ RoomIdle /\ TraceIdle /\ SysIdle
SpecMqtt == InitMqtt /\ [][MqttNext]_vars

\* The steps of the simulator thread, which is scheduled again and again.
MqttThread == MqttLoopTop \/ MqttDeliver \/ MqttSleep
SpecMqttLive == SpecMqtt /\ WF_vars(MqttThread)

(***************************************************************************)
(* Properties of debounce_series                                           *)
(***************************************************************************)
\* the committed state before sample i
Prev(o, i) == IF i = 1 THEN 0 ELSE o[i - 1]

NonMissing(xs) == SelectSeq(xs, LAMBDA v : ~isna(v))

\* The last S non-missing samples of xs[1..i] exist and are all 1 (one) or
\* all different from 1 (~one).
LastAgree(xs, i, S, one) ==
    LET nm == NonMissing(SubSeq(xs, 1, i))
    IN  /\ Len(nm) >= S
        /\ \A k \in (Len(nm) - S + 1)..Len(nm) : (nm[k] = 1) <=> one

RECURSIVE KeepWhere(_, _)
\* the entries of o at the indices where xs is not missing
KeepWhere(o, xs) ==
    IF xs = << >> THEN << >>
    ELSE (IF isna(Head(xs)) THEN << >> ELSE << Head(o) >>) \o KeepWhere(Tail(o), Tail(xs))

HasTransitions(o) ==
    \E i, j \in 1..Len(o) : i < j /\ Prev(o, i) = 0 /\ o[i] = 1 /\ o[j - 1] = 1 /\ o[j] = 0

HasMissing(xs) == \E k \in 1..Len(xs) : isna(xs[k])

\* C2 as stated: debouncing the returned series again, with the same
\* stability count, gives the returned series, for every stability count.
C2_IdempotentAnyS ==
    deb_pc = "done" => debounce_series(out, stable_req) = out

\* C2 (amended): with stability count 1, debouncing the returned series
\* again gives the returned series at every index.
C2_IdempotentS1 ==
    (deb_pc = "done" /\ stable_req = 1) => debounce_series(out, stable_req) = out

C2_Witness ==
    deb_pc = "done" /\ stable_req = 1 /\ HasTransitions(out) /\ HasMissing(s)

\* C8: the output has the length of the input and values in {0, 1}; the
\* committed state starts at 0 and changes to 1 (to 0) at a sample only if
\* that sample is not missing and it and the stable_req - 1 non-missing
\* samples before it are all 1 (all different from 1).
C8_CommitRule ==
    /\ Len(out) = Len(s)
    /\ \A i \in 1..Len(out) :
         /\ out[i] \in {0, 1}
         /\ out[i] # Prev(out, i) =>
              /\ ~isna(s[i])
              /\ LastAgree(s, i, stable_req, out[i] = 1)

C8_Witness ==
    deb_pc = "done" /\ stable_req = 2 /\ HasTransitions(out) /\ HasMissing(s)

\* C9: at a missing sample the output is the committed state before it, and
\* the counts and the outputs at the other indices are those of the series
\* with every missing sample removed.
C9_MissingIsNoInformation ==
    LET d == DebounceRun(DebounceStart, NonMissing(s), stable_req)
    IN  /\ Len(out) = Len(s)
        /\ \A i \in 1..Len(s) : isna(s[i]) => out[i] = Prev(out, i)
        /\ d.out = KeepWhere(out, s)
        /\ d.on_count = on_count
        /\ d.off_count = off_count
        /\ d.state = state

\* a pending count of 1s survives a missing sample and commits after it
C9_Witness ==
    /\ stable_req = 2
    /\ \E i \in 2..(Len(s) - 1) :
         /\ isna(s[i]) /\ s[i - 1] = 1 /\ s[i + 1] = 1
         /\ out[i] = 0 /\ out[i + 1] = 1

\* C24: the returned series is the one a second run on the same input
\* gives, and for every n its first n values are what debounce_series
\* gives on the first n samples alone.
C24_Causality ==
    deb_pc = "done" =>
        /\ debounce_series(s, stable_req) = out
        /\ \A n \in 0..Len(s) :
              debounce_series(SubSeq(s, 1, n), stable_req) = SubSeq(out, 1, n)

\* a series whose output rises and falls again, so that its prefixes end
\* before, between and after the two changes
C24_Witness ==
    /\ deb_pc = "done"
    /\ stable_req = 2
    /\ \E i \in 2..Len(out) : \E j \in (i + 1)..Len(out) :
          out[i - 1] = 0 /\ out[i] = 1 /\ out[j - 1] = 1 /\ out[j] = 0

\* xs (no missing samples) holds S consecutive samples all 1 (one) or all
\* different from 1 (~one)
HasRun(xs, S, one) ==
    \E k \in S..Len(xs) : \A m \in (k - S + 1)..k : (xs[m] = 1) <=> one

\* C10: an input with no stable_req consecutive non-missing 1s gives an
\* all-zero output, and the output differs between two indices only if in
\* between a sample completes stable_req consecutive non-missing samples
\* that differ from the committed state.
C10_Stability ==
    /\ Len(out) = Len(s)
    /\ ~HasRun(NonMissing(s), stable_req, TRUE) => \A i \in 1..Len(out) : out[i] = 0
    /\ \A i, j \in 1..Len(out) :
         (i < j /\ out[i] # out[j]) =>
             \E k \in (i + 1)..j :
                 ~isna(s[k]) /\ LastAgree(s, k, stable_req, out[i] = 0)

\* 1s separated by other samples, never stable_req in a row
C10_Witness ==
    /\ stable_req = 3
    /\ Len(s) >= 6
    /\ HasRun(NonMissing(s), 2, TRUE)
    /\ ~HasRun(NonMissing(s), stable_req, TRUE)
    /\ \A i \in 1..Len(out) : out[i] = 0

(***************************************************************************)
(* Properties of oven_left_on_guard                                        *)
(***************************************************************************)
\* C1 as stated: a series that oscillates between values above the
\* on-threshold and values below the off-threshold, never OVEN_MIN_THR
\* consecutive samples above nor OVEN_OFF_MIN consecutive samples below,
\* yields no alert.
C1_NoChatterNoAlert ==
    chatter.ok => alerts = << >>

\* C1 (amended): such a series yields no alert while fewer than
\* OVEN_MIN_THR of its samples, consecutive or not, are above the
\* on-threshold, and exactly one alert from the OVEN_MIN_THR-th such sample
\* on.
C1_ChatterAlertsByTotal ==
    chatter.ok =>
        Len(alerts) = (IF chatter.hi_total >= OVEN_MIN_THR THEN 1 ELSE 0)

C1_Witness ==
    chatter.ok /\ chatter.hi_total >= OVEN_MIN_THR /\ Len(alerts) = 1

\* C6: the on-streak is reset to zero only by a sample that completes
\* OVEN_OFF_MIN consecutive samples below the off-threshold.
C6_ResetOnlyAfterConsecutiveOff ==
    [][(streak > 0 /\ streak' = 0) => lo_run' >= OVEN_OFF_MIN]_vars

\* C7: a run of at least OVEN_MIN_THR consecutive samples above the
\* on-threshold that began with the streak at zero has exactly one alert,
\* emitted at its OVEN_MIN_THR-th sample, starting at its first sample,
\* with minutes_on >= OVEN_MIN_THR.
C7_OneAlertPerEpisode ==
    episode_run >= OVEN_MIN_THR =>
        LET first == oven_t - episode_run + 1
            inRun == {i \in 1..Len(alerts) : alerts[i].ts_end >= first}
        IN  /\ Cardinality(inRun) = 1
            /\ \A i \in inRun :
                 /\ alerts[i].label = "oven_left_on"
                 /\ alerts[i].ts_start = first
                 /\ alerts[i].ts_end = first + OVEN_MIN_THR - 1
                 /\ alerts[i].features.minutes_on >= OVEN_MIN_THR

\* 900 W for 35 minutes
C7_Witness ==
    /\ episode_run = 35
    /\ Len(alerts) = 1
    /\ alerts[1].features.power_w = 900

(***************************************************************************)
(* Properties of sleep_sessions_from_bed                                   *)
(***************************************************************************)
\* bedroom presence from 23:00 to 06:30, a turnover every 10 minutes, in a
\* series that covers the whole interval
PresenceAllNight ==
    /\ df_minutes.p_start = 23 * 60
    /\ df_minutes.p_end = 30 * 60 + 30
    /\ df_minutes.away = 0
    /\ df_minutes.turn_period = 10
    /\ df_minutes.turn_count >= 45
    /\ df_minutes.len = ScanLen

WithLabel(as, l) == SelectSeq(as, LAMBDA a : a.label = l)

\* C3 as stated: the scenario yields exactly one sleep_session alert, of
\* about 450 minutes, and no possible_immobility alert.
C3_SessionOf450 ==
    (sleep_pc = "done" /\ PresenceAllNight) =>
        /\ Len(WithLabel(alerts_local, "sleep_session")) = 1
        /\ \A i \in 1..Len(alerts_local) :
             alerts_local[i].label = "sleep_session" =>
                 alerts_local[i].features.duration_min \in 445..455
        /\ Len(WithLabel(alerts_local, "possible_immobility")) = 0

\* C3 (amended): the scenario yields exactly one sleep_session info alert,
\* from 23:00 to the end of the quiet hours at 06:00, so of 420 minutes,
\* and no possible_immobility alert.
C3_SessionOf420 ==
    (sleep_pc = "done" /\ PresenceAllNight) =>
        /\ Len(alerts_local) = 1
        /\ alerts_local[1].label = "sleep_session"
        /\ alerts_local[1].type = "info"
        /\ alerts_local[1].features.duration_min = (24 + QUIET_END) * 60 - 23 * 60
        /\ alerts_local[1].ts_start = 23 * 60 * 60
        /\ alerts_local[1].ts_end = (24 + QUIET_END) * 60 * 60 - 1

C3_Witness ==
    /\ sleep_pc = "done"
    /\ PresenceAllNight
    /\ Len(alerts_local) = 1
    /\ alerts_local[1].features.turnovers >= 40

\* minute m is a row with bedroom pressure, in the quiet hours
PressedQuiet(b, m) ==
    /\ InIndex(b, m)
    /\ bedroom_motion(b, m) >= SLEEP_MIN_PRESS
    /\ (HourOf(m) >= QUIET_START \/ HourOf(m) < QUIET_END)

\* the maximal runs of such minutes, each as << first, one past the last >>
RunStarts(b) ==
    {m \in b.start..(b.start + b.len - 1) : PressedQuiet(b, m) /\ ~PressedQuiet(b, m - 1)}

RunEnd(b, m) ==
    CHOOSE e \in (m + 1)..(b.start + b.len) :
        /\ ~PressedQuiet(b, e)
        /\ \A k \in m..(e - 1) : PressedQuiet(b, k)

MaximalRuns(b) == {<< m, RunEnd(b, m) >> : m \in RunStarts(b)}

Retained(ss) == SelectSeq(ss, LAMBDA p : p[2] - p[1] >= SLEEP_MIN_SESSION_MIN)

TurnoverSet(b, a, e) ==
    {m \in a..(e - 1) : InIndex(b, m) /\ bedroom_motion(b, m) >= SLEEP_TURNOVER_THRESHOLD}

\* C17: the sessions are the maximal runs of pressed quiet samples, in time
\* order, each closed at the first sample that is not one (or one minute
\* after the last row); the sessions of at least SLEEP_MIN_SESSION_MIN
\* minutes, and no others, each yield one sleep_session info alert with
\* the duration in minutes and the number of turnover samples.
C17_SessionConstruction ==
    sleep_pc = "done" =>
        LET infos == WithLabel(alerts_local, "sleep_session")
            kept  == Retained(sessions)
        IN  /\ {sessions[i] : i \in 1..Len(sessions)} = MaximalRuns(df_minutes)
            /\ \A i, j \in 1..Len(sessions) : i < j => sessions[i][2] <= sessions[j][1]
            /\ Len(infos) = Len(kept)
            /\ \A i \in 1..Len(infos) :
                 /\ infos[i].type = "info"
                 /\ infos[i].ts_start = kept[i][1] * 60
                 /\ infos[i].features.duration_min = kept[i][2] - kept[i][1]
                 /\ infos[i].features.turnovers
                      = Cardinality(TurnoverSet(df_minutes, kept[i][1], kept[i][2]))

\* two sessions: one of 50 minutes, dropped, and one that crosses midnight
C17_Witness ==
    /\ sleep_pc = "done"
    /\ Len(sessions) = 2
    /\ sessions[1][2] - sessions[1][1] < SLEEP_MIN_SESSION_MIN
    /\ sessions[2][1] < 24 * 60
    /\ sessions[2][2] > 24 * 60
    /\ Len(WithLabel(alerts_local, "sleep_session")) = 1
    /\ alerts_local[1].features.turnovers > 0

\* the largest gap between consecutive elements of
\* [session start, turnover timestamps..., session end]
LargestGap(b, a, e) ==
    LET T == {a, e} \cup TurnoverSet(b, a, e)
        G == {q[2] - q[1] : q \in {r \in T \X T :
                 r[1] < r[2] /\ ~\E c \in T : r[1] < c /\ c < r[2]}}
    IN  CHOOSE g \in G : \A h \in G : h <= g

\* presence from 23:00 to 06:30 with a single turnover, at 23:10
SingleTurnover ==
    /\ df_minutes.p_start = 23 * 60
    /\ df_minutes.p_end = 30 * 60 + 30
    /\ df_minutes.away = 0
    /\ df_minutes.turn_first = 10
    /\ df_minutes.turn_count = 1
    /\ df_minutes.len = ScanLen

\* C18: a retained session has a possible_immobility guard alert, right
\* after its sleep_session alert, if and only if its largest gap is at
\* least SLEEP_IMMOBILITY_GAP_MIN; the single-turnover scenario yields one
\* sleep_session alert and one possible_immobility alert.
C18_ImmobilityIffLargestGap ==
    sleep_pc = "done" =>
        LET kept  == Retained(sessions)
            guard == WithLabel(alerts_local, "possible_immobility")
            still == SelectSeq(kept, LAMBDA p :
                        LargestGap(df_minutes, p[1], p[2]) >= SLEEP_IMMOBILITY_GAP_MIN)
        IN  /\ Len(guard) = Len(still)
            /\ \A i \in 1..Len(guard) :
                 /\ guard[i].type = "guard"
                 /\ guard[i].ts_start = still[i][1] * 60
                 /\ guard[i].ts_end = still[i][2] * 60 - 1
                 /\ guard[i].features.max_gap_min
                      = LargestGap(df_minutes, still[i][1], still[i][2])
            /\ SingleTurnover =>
                 /\ Len(alerts_local) = 2
                 /\ alerts_local[1].label = "sleep_session"
                 /\ alerts_local[2].label = "possible_immobility"

C18_Witness ==
    /\ sleep_pc = "done"
    /\ SingleTurnover
    /\ Len(alerts_local) = 2
    /\ alerts_local[2].features.max_gap_min >= SLEEP_IMMOBILITY_GAP_MIN

\* C30: every possible_immobility alert of the returned list comes directly
\* after a sleep_session alert with the same ts_start and ts_end, and a
\* retained session shorter than SLEEP_IMMOBILITY_GAP_MIN minutes has no
\* possible_immobility alert.
C30_ImmobilityFollowsSession ==
    sleep_pc = "done" =>
        /\ \A k \in 1..Len(alerts_local) :
             alerts_local[k].label = "possible_immobility" =>
                 /\ k > 1
                 /\ alerts_local[k - 1].label = "sleep_session"
                 /\ alerts_local[k - 1].ts_start = alerts_local[k].ts_start
                 /\ alerts_local[k - 1].ts_end = alerts_local[k].ts_end
        /\ \A i \in 1..Len(Retained(sessions)) :
             LET p == Retained(sessions)[i]
             IN  p[2] - p[1] < SLEEP_IMMOBILITY_GAP_MIN =>
                     \A k \in 1..Len(alerts_local) :
                         alerts_local[k].label = "possible_immobility" =>
                             alerts_local[k].ts_start # p[1] * 60

\* A call that returns a short retained session with its sleep_session alert
\* alone, then a long one followed by its possible_immobility alert.
C30_Witness ==
    /\ sleep_pc = "done"
    /\ Len(Retained(sessions)) = 2
    /\ Retained(sessions)[1][2] - Retained(sessions)[1][1] < SLEEP_IMMOBILITY_GAP_MIN
    /\ Len(alerts_local) = 3
    /\ alerts_local[1].label = "sleep_session"
    /\ alerts_local[2].label = "sleep_session"
    /\ alerts_local[3].label = "possible_immobility"
    /\ alerts_local[3].ts_start = alerts_local[2].ts_start

(***************************************************************************)
(* Properties of group_anomaly_incidents                                   *)
(***************************************************************************)
\* rows i and j of df_anom lie in the same incident
SameIncident(i, j) ==
    \E k \in 1..Len(incidents) :
        /\ \E a \in 1..Len(incidents[k]) : incidents[k][a] = df_anom[i]
        /\ \E b \in 1..Len(incidents[k]) : incidents[k][b] = df_anom[j]

GapMin(i) == (df_anom[i + 1].ts - df_anom[i].ts) \div 60

\* C15: a candidate MIN_ALERT_GAP_MIN minutes or less after the candidate
\* before it is in that candidate's incident, and one 31 minutes after it
\* (or more) is not, whatever the time since the incident's first candidate.
C15_GroupingBoundary ==
    grp_pc \in {"incidents", "done"} =>
        \A i \in 1..(Len(df_anom) - 1) :
            /\ GapMin(i) <= MIN_ALERT_GAP_MIN => SameIncident(i, i + 1)
            /\ GapMin(i) >= MIN_ALERT_GAP_MIN + 1 => ~SameIncident(i, i + 1)

\* three candidates 30 minutes apart in one incident, the next one 31
\* minutes later in another
C15_Witness ==
    /\ grp_pc = "done"
    /\ Len(df_anom) = 4
    /\ GapMin(1) = MIN_ALERT_GAP_MIN
    /\ GapMin(2) = MIN_ALERT_GAP_MIN
    /\ GapMin(3) = MIN_ALERT_GAP_MIN + 1
    /\ Len(incidents) = 2
    /\ Len(incidents[1]) = 3

RECURSIVE Flatten(_)
\* the incidents' rows, one incident after the other
Flatten(incs) == IF incs = << >> THEN << >> ELSE Head(incs) \o Flatten(Tail(incs))

\* C29: the incidents, one after the other, are the candidate rows in
\* their order (each candidate in one incident, none twice), no incident
\* is empty, there is one alert per incident, and an alert starts more
\* than MIN_ALERT_GAP_MIN minutes after the end of the alert before it.
C29_IncidentsPartition ==
    /\ grp_pc \in {"incidents", "done"} =>
          /\ Flatten(incidents) = df_anom
          /\ \A k \in 1..Len(incidents) : incidents[k] # << >>
    /\ grp_pc = "done" =>
          /\ Len(grp_out) = Len(incidents)
          /\ \A k \in 1..(Len(grp_out) - 1) :
                grp_out[k + 1].ts_start - grp_out[k].ts_end > MIN_ALERT_GAP_MIN * 60

\* two incidents of two candidates each, 31 minutes apart
C29_Witness ==
    /\ grp_pc = "done"
    /\ Len(grp_out) = 2
    /\ Len(incidents[1]) = 2
    /\ Len(incidents[2]) = 2
    /\ grp_out[2].ts_start - grp_out[1].ts_end = (MIN_ALERT_GAP_MIN + 1) * 60

MaxScore(inc) ==
    CHOOSE v \in {inc[i].anomaly_score : i \in 1..Len(inc)} :
        \A i \in 1..Len(inc) : inc[i].anomaly_score <= v

\* C16: there is one anomaly alert per incident, in order; it spans the
\* incident's first to last timestamp, its score is the largest score of
\* the incident, and its label and features are those of a window of the
\* incident with that score: night_wandering if that window is in quiet
\* hours with room_transitions >= QUIET_TRANSITIONS_ANOMALY, else
\* unusual_activity.
C16_IncidentAlertContent ==
    grp_pc = "done" =>
        /\ Len(grp_out) = Len(incidents)
        /\ \A k \in 1..Len(incidents) :
             LET inc == incidents[k]
                 a   == grp_out[k]
             IN  /\ a.type = "anomaly"
                 /\ a.ts_start = inc[1].ts
                 /\ a.ts_end = inc[Len(inc)].ts
                 /\ a.score = MaxScore(inc)
                 /\ \E i \in 1..Len(inc) :
                      /\ inc[i].anomaly_score = MaxScore(inc)
                      /\ a.features = [motion_sum |-> inc[i].motion_sum,
                                       unique_rooms |-> inc[i].unique_rooms,
                                       room_transitions |-> inc[i].room_transitions,
                                       oven_on_frac |-> inc[i].oven_on_frac,
                                       is_quiet |-> inc[i].is_quiet]
                      /\ a.label = IF inc[i].is_quiet = 1
                                      /\ inc[i].room_transitions >= QUIET_TRANSITIONS_ANOMALY
                                   THEN "night_wandering" ELSE "unusual_activity"

\* an incident whose peak is its middle window, a night-wandering one,
\* between two windows that are not
C16_Witness ==
    /\ grp_pc = "done"
    /\ Len(incidents) = 1
    /\ Len(incidents[1]) = 3
    /\ incidents[1][2].anomaly_score > incidents[1][1].anomaly_score
    /\ incidents[1][2].anomaly_score > incidents[1][3].anomaly_score
    /\ incidents[1][1].room_transitions < QUIET_TRANSITIONS_ANOMALY
    /\ incidents[1][3].is_quiet = 0
    /\ grp_out[1].label = "night_wandering"
    /\ grp_out[1].ts_end > grp_out[1].ts_start

(***************************************************************************)
(* Properties of run_pipeline_from_df                                      *)
(***************************************************************************)
WellFormed(d) == d.has_index /\ REQUIRED_COLUMNS \subseteq d.columns

\* the run is over: it returned or it raised
PipeOver == pipe_pc \in {"done", "raised"}

\* C11: a frame of L rows (with its index and columns) gives
\* floor((L - WINDOW_MIN) / HOP_MIN) + 1 windows when L >= WINDOW_MIN and
\* none when L < WINDOW_MIN; window k (from 0) is the WINDOW_MIN
\* consecutive rows that end at row WINDOW_MIN - 1 + k * HOP_MIN.
C11_WindowCompleteness ==
    /\ (PipeOver /\ WellFormed(df_input)) =>
          Len(windows) = IF df_input.len >= WINDOW_MIN
                         THEN (df_input.len - WINDOW_MIN) \div HOP_MIN + 1
                         ELSE 0
    /\ Len(win_rows) = Len(windows)
    /\ \A k \in 1..Len(windows) :
          LET e == WINDOW_MIN - 1 + (k - 1) * HOP_MIN
          IN  /\ windows[k] = df_input.start + e
              /\ win_rows[k] = (e - WINDOW_MIN + 1)..e
              /\ Cardinality(win_rows[k]) = WINDOW_MIN
              /\ e < df_input.len

\* 24 rows give two windows, the last four rows in none
C11_Witness ==
    /\ pipe_pc = "done"
    /\ df_input.len = WINDOW_MIN + HOP_MIN + 4
    /\ Len(windows) = 2
    /\ Len(feature_rows) = 2

Invalid(d) ==
    \/ ~d.has_index
    \/ REQUIRED_COLUMNS \ d.columns # {}
    \/ d.len < WINDOW_MIN

NothingComputed ==
    /\ df_local.columns = {}
    /\ raw_source = NoSource
    /\ present = NoColumns
    /\ current_rooms = << >>
    /\ windows = << >>
    /\ feature_rows = << >>
    /\ train_idx = << >>
    /\ pipe_X = << >>
    /\ guard_alerts = << >>
    /\ sleep_alerts = << >>
    /\ anomaly_incidents = << >>
    /\ pipe_alerts = << >>
    /\ uuid_count = 0

\* C12: on a frame without a DatetimeIndex, without one of the required
\* columns or with fewer than WINDOW_MIN rows, the first step of the run
\* raises: nothing has been computed, no file is written and the run never
\* returns a list.
C12_ValidationFatalAndFirst ==
    (Invalid(df_input) /\ pipe_pc # "start") =>
        /\ pipe_pc = "raised"
        /\ raised # ""
        /\ NothingComputed
        /\ out_file = << >>
        /\ returned = << >>

\* a frame that lacks nothing but one row
C12_Witness ==
    /\ pipe_pc = "raised"
    /\ WellFormed(df_input)
    /\ df_input.len = WINDOW_MIN - 1
    /\ save_output

ZeroMotion(d) ==
    \A i \in 0..(d.len - 1) : \A k \in 1..Len(ROOMS) : motion(d, ROOMS[k], d.start + i) = 0

NoActivityAlert ==
    \A k \in 1..Len(returned) :
        /\ returned[k].type # "anomaly"
        /\ returned[k].label \notin {"sleep_session", "possible_immobility"}

\* C19: a run on a day of rows whose three motion columns are zero at
\* every row returns no anomaly alert and no sleep_session or
\* possible_immobility alert.
C19_AllZeroMotion ==
    (pipe_pc = "done" /\ df_input.len = DayRows /\ ZeroMotion(df_input)) => NoActivityAlert

\* C20: every alert returned has ack_status "new", snoozed_until null, the
\* household_id of the call, policy_context.quiet_hours "22:00-06:00", a
\* type among guard, anomaly and info, and an id that no other alert of the
\* run has.
C20_UniformAlertShape ==
    pipe_pc = "done" =>
        \A k \in 1..Len(returned) :
            /\ returned[k].ack_status = "new"
            /\ returned[k].snoozed_until = None
            /\ returned[k].household_id = household_id
            /\ returned[k].policy_context.quiet_hours = "22:00-06:00"
            /\ returned[k].type \in {"guard", "anomaly", "info"}
            /\ \A j \in 1..Len(returned) : j # k => returned[j].id # returned[k].id

\* a run for household H2 that returns an alert of each source
C20_Witness ==
    /\ pipe_pc = "done"
    /\ household_id = "H2"
    /\ \A l \in {"oven_left_on", "sleep_session", "possible_immobility"} :
          \E k \in 1..Len(returned) : returned[k].label = l
    /\ \E k \in 1..Len(returned) : returned[k].type = "anomaly"

\* C27: the training subset is the windows that end before noon when
\* there are at least 10 of them, else the first min(n, 50) of the n
\* windows, in time order; it is not empty, and every window has a score.
C27_TrainingSubset ==
    pipe_X # << >> =>
        LET n  == Len(windows)
            am == {i \in 1..n : HourOf(windows[i]) < 12}
        IN  /\ {train_idx[k] : k \in 1..Len(train_idx)} =
                  IF Cardinality(am) >= 10 THEN am
                  ELSE 1..(IF n < 50 THEN n ELSE 50)
            /\ \A k \in 2..Len(train_idx) : train_idx[k - 1] < train_idx[k]
            /\ train_idx # << >>
            /\ Len(pipe_X) = n
            /\ \A i \in 1..n : pipe_X[i].ts = windows[i] /\ pipe_X[i].anomaly_score \in Int

\* more than 50 windows, fewer than 10 of them before noon: the first 50
\* are the training subset and the windows before noon are not in it
C27_Witness ==
    /\ pipe_pc = "done"
    /\ Len(windows) > 50
    /\ Len(train_idx) = 50
    /\ \E i \in 1..Len(windows) : HourOf(windows[i]) < 12
    /\ \A k \in 1..Len(train_idx) : HourOf(windows[train_idx[k]]) >= 12

(***************************************************************************)
(* Properties of is_candidate_anomaly                                      *)
(***************************************************************************)
\* C4: in quiet hours the adjusted threshold is at most the hour's
\* threshold, whatever its sign, so a score that meets the hour's threshold
\* meets the adjusted one.
C4_QuietThresholdNotHigher ==
    (cand_pc = "ret" /\ row.is_quiet = 1) =>
        /\ adj_thr <= row.threshold * 100
        /\ row.anomaly_score >= row.threshold => row.anomaly_score * 100 >= adj_thr

\* the quiet low-motion suppression condition, as the claims state it
QuietLowMotion(r) ==
    /\ r.is_quiet = 1
    /\ r.unique_rooms = 1
    /\ r.room_transitions = 0
    /\ r.oven_on_frac = 0
    /\ r.motion_sum <= QUIET_LOW_MOTION_MAX

\* C13: a window that meets the quiet low-motion suppression condition is
\* not a candidate, whatever its score and threshold, also when its
\* motion_sum is at or above the pressure-only floor.
C13_SuppressionPrecedence ==
    (cand_pc = "ret" /\ QuietLowMotion(row)) => ~is_candidate

\* a suppressed window that passes the score test and the pressure-only
\* branch
C13_Witness ==
    /\ cand_pc = "ret"
    /\ QuietLowMotion(row)
    /\ row.motion_sum >= PRESSURE_ONLY_MOTION_MIN
    /\ row.anomaly_score * 100 >= adj_thr
    /\ ~is_candidate

\* the three activity-shape branches; floorIncluded says whether a
\* pressure-only motion_sum equal to the floor is accepted
ShapeBranch(r, floorIncluded) ==
    \/ (r.is_quiet = 1 /\ r.room_transitions >= QUIET_TRANSITIONS_ANOMALY)
    \/ r.motion_sum > HIGH_MOTION_THRESHOLD
    \/ /\ r.unique_rooms = 1
       /\ r.oven_on_frac = 0
       /\ IF floorIncluded THEN r.motion_sum >= PRESSURE_ONLY_MOTION_MIN
                           ELSE r.motion_sum > PRESSURE_ONLY_MOTION_MIN

ScoreTest(r) ==
    IF r.is_quiet = 1
    THEN r.anomaly_score * 100 >= r.threshold * QUIET_THRESHOLD_FACTOR_PCT
    ELSE r.anomaly_score >= r.threshold

\* C14 as stated: the window is a candidate exactly when it is not
\* suppressed, passes the score test and one of the branches (a), (b),
\* (c) holds, (c) being pressure-only activity above the floor.
C14_TwoStageFloorExcluded ==
    cand_pc = "ret" =>
        (is_candidate <=> (~QuietLowMotion(row) /\ ScoreTest(row) /\ ShapeBranch(row, FALSE)))

\* C14 (amended): the same, (c) being pressure-only activity at or above
\* the floor (motion_sum >= PRESSURE_ONLY_MOTION_MIN).
C14_TwoStageFloorIncluded ==
    cand_pc = "ret" =>
        (is_candidate <=> (~QuietLowMotion(row) /\ ScoreTest(row) /\ ShapeBranch(row, TRUE)))

\* a candidate by the pressure-only branch alone, at the floor
C14_Witness ==
    /\ cand_pc = "ret"
    /\ is_candidate
    /\ row.motion_sum = PRESSURE_ONLY_MOTION_MIN
    /\ row.is_quiet = 0

\* a window that is not suppressed and for which neither branch (a) nor
\* branch (b) holds
OnlyBranchC(r) ==
    /\ ~QuietLowMotion(r)
    /\ ~(r.is_quiet = 1 /\ r.room_transitions >= QUIET_TRANSITIONS_ANOMALY)
    /\ ~(r.motion_sum > HIGH_MOTION_THRESHOLD)

\* C22: such a window is a candidate only if it touches one room, has no
\* oven time and its motion_sum is strictly above PRESSURE_ONLY_MOTION_MIN;
\* at the floor it is not a candidate.
C22_FloorExcluded ==
    (cand_pc = "ret" /\ OnlyBranchC(row) /\ is_candidate) =>
        /\ row.unique_rooms = 1
        /\ row.oven_on_frac = 0
        /\ row.motion_sum > PRESSURE_ONLY_MOTION_MIN

\* C22 (amended): such a window is a candidate only if it touches one
\* room, has no oven time and its motion_sum is at least
\* PRESSURE_ONLY_MOTION_MIN; at the floor it is a candidate when it is
\* pressure-only and passes the score test.
C22_FloorIncluded ==
    (cand_pc = "ret" /\ OnlyBranchC(row)) =>
        /\ is_candidate =>
              /\ row.unique_rooms = 1
              /\ row.oven_on_frac = 0
              /\ row.motion_sum >= PRESSURE_ONLY_MOTION_MIN
        /\ (/\ row.motion_sum = PRESSURE_ONLY_MOTION_MIN
            /\ row.unique_rooms = 1
            /\ row.oven_on_frac = 0
            /\ ScoreTest(row)) => is_candidate

\* a quiet-hour window at the floor, with too few room transitions for
\* branch (a), accepted by branch (c)
C22_Witness ==
    /\ cand_pc = "ret"
    /\ OnlyBranchC(row)
    /\ is_candidate
    /\ row.is_quiet = 1
    /\ row.room_transitions > 0
    /\ row.motion_sum = PRESSURE_ONLY_MOTION_MIN

(***************************************************************************)
(* Properties of the adaptive thresholds                                   *)
(***************************************************************************)
WindowsInHour(ws, h) == Cardinality({i \in 1..Len(ws) : ws[i].hour = h})

\* C5: a window alone in its hour of day gets the global quantile as its
\* threshold.
C5_FallbackToGlobal ==
    thr_pc = "thresholded" =>
        \A i \in 1..Len(X) :
            WindowsInHour(X, X[i].hour) = 1 => threshold[i] = global_thr

\* C21: for the scores of a run, a percentile above the configured one
\* gives every hour of day, the global quantile and every window a
\* threshold that is not lower.
C21_ThresholdMonotone ==
    thr_pc = "thresholded" =>
        \A p \in Pctls :
            p > pctl =>
                /\ \A h \in DOMAIN thr_by_hour : thr_by_hour[h] <= ThrByHour(X, p)[h]
                /\ global_thr <= GlobalThr(X, p)
                /\ \A i \in 1..Len(X) :
                      threshold[i] <= ThrGet(ThrByHour(X, p), X[i].hour, GlobalThr(X, p))

\* the median of an hour with two different scores, below its 0.975
\* quantile, beside an hour whose threshold does not move
C21_Witness ==
    /\ thr_pc = "thresholded"
    /\ pctl = 500
    /\ \E h \in DOMAIN thr_by_hour : thr_by_hour[h] < ThrByHour(X, 975)[h]
    /\ \E h \in DOMAIN thr_by_hour : thr_by_hour[h] = ThrByHour(X, 975)[h]
    /\ global_thr < GlobalThr(X, 975)

(***************************************************************************)
(* Properties of oven_left_on_guard: missing readings                      *)
(***************************************************************************)
\* C28: a step of the loop that reads a missing power reading (NaN) adds
\* no alert and leaves the on-streak, the off-streak and the episode start
\* as they were; the loop goes on to the next sample.
C28_NaNSampleSkipped ==
    [][(oven_t' = oven_t + 1 /\ isna(oven_w')) =>
          /\ alerts' = alerts
          /\ streak' = streak
          /\ off_streak' = off_streak
          /\ on_start' = on_start]_vars

\* a missing reading inside an episode, after a reading below the
\* off-threshold
C28_Witness ==
    /\ isna(oven_w)
    /\ streak > 1
    /\ off_streak > 0
    /\ on_start # None

(***************************************************************************)
(* Properties of is_quiet_hour                                             *)
(***************************************************************************)
\* hour h is in the half-open range from qs to qe, which wraps past
\* midnight when qs > qe
InQuietRange(h, qs, qe) ==
    IF qs > qe THEN h >= qs \/ h < qe ELSE h >= qs /\ h < qe

\* C23: under every configured pair of different hours, wrapping or not,
\* is_quiet_hour(h) is 1 for the hours of the range from QUIET_START
\* (included) to QUIET_END (excluded) and 0 for every other hour.
C23_QuietRange ==
    (q_pc = "ret" /\ quiet_start # quiet_end) =>
        /\ q_ret \in {0, 1}
        /\ q_ret = 1 <=> InQuietRange(q_hour, quiet_start, quiet_end)

(***************************************************************************)
(* Properties of infer_current_room and count_room_transitions             *)
(***************************************************************************)
\* C25: the inferred room is null when no room's flag is 1, the previous
\* room when its flag is 1, and otherwise the first of hall, kitchen,
\* bedroom whose flag is 1.
C25_RoomInference ==
    rm_pc # "call" =>
        LET active == {r \in RoomSet : rm_flags[r] = 1}
        IN  /\ active = {} => rm_ret = NoRoom
            /\ rm_prev \in active => rm_ret = rm_prev
            /\ (active # {} /\ rm_prev \notin active) =>
                  rm_ret = IF rm_flags["hall"] = 1 THEN "hall"
                           ELSE IF rm_flags["kitchen"] = 1 THEN "kitchen"
                           ELSE "bedroom"

\* the previous room is kept although a room before it in the order is
\* active too
C25_Witness ==
    /\ rm_pc = "inferred"
    /\ rm_prev = "kitchen"
    /\ rm_flags = [hall |-> 1, kitchen |-> 1, bedroom |-> 0]
    /\ rm_ret = "kitchen"

\* the last room before position i of w that is not null, null if none
LastKnownRoom(w, i) ==
    LET js == {j \in 1..(i - 1) : w[j] # NoRoom}
    IN  IF js = {} THEN NoRoom ELSE w[CHOOSE j \in js : \A k \in js : k <= j]

\* C26: the count is the number of positions whose room is not null and
\* differs from the last room before it that is not null; A, null, A
\* counts 0 and A, null, B counts 1.
C26_TransitionCount ==
    rm_pc = "counted" =>
        /\ rm_transitions =
              Cardinality({i \in 1..Len(rm_window) :
                              /\ rm_window[i] # NoRoom
                              /\ LastKnownRoom(rm_window, i) # NoRoom
                              /\ rm_window[i] # LastKnownRoom(rm_window, i)})
        /\ (/\ Len(rm_window) = 3
            /\ rm_window[1] # NoRoom
            /\ rm_window[2] = NoRoom
            /\ rm_window[3] # NoRoom) =>
               rm_transitions = IF rm_window[1] = rm_window[3] THEN 0 ELSE 1

\* hall, null, kitchen, null: one transition
C26_Witness ==
    /\ rm_pc = "counted"
    /\ rm_window = << "hall", NoRoom, "kitchen", NoRoom >>
    /\ rm_transitions = 1

(***************************************************************************)
(* Properties of the window features of run_pipeline_from_df               *)
(***************************************************************************)
\* C33 as stated: in every window of the pipeline room_transitions >= 1
\* implies unique_rooms >= 2; read here on the frames whose presence is
\* derived from the motion columns.
C33_TransitionNeedsTwoRooms ==
    \A k \in 1..Len(feature_rows) :
        (raw_source = [r \in RoomSet |-> "motion"]
         /\ feature_rows[k].room_transitions >= 1) => feature_rows[k].unique_rooms >= 2

(***************************************************************************)
(* Properties of the timestamps of the alerts of run_pipeline_from_df      *)
(***************************************************************************)
\* a <= b for two timestamps in ISO-8601 form
IsoLeq(a, b) ==
    \/ a.day < b.day
    \/ a.day = b.day /\ a.hh < b.hh
    \/ a.day = b.day /\ a.hh = b.hh /\ a.mm < b.mm
    \/ a.day = b.day /\ a.hh = b.hh /\ a.mm = b.mm /\ a.ss <= b.ss

\* the minutes of the input whose oven reading is above the on-threshold
AboveMinutes(d) ==
    {m \in d.start..(d.start + d.len - 1) : oven_power_w(d, m) > OVEN_W_THR}

\* The first of them: the frames hold one oven episode, with no
\* OVEN_OFF_MIN readings below the off-threshold inside it.
EpisodeFirst(d) == CHOOSE m \in AboveMinutes(d) : \A x \in AboveMinutes(d) : m <= x

\* The minute at which the episode holds OVEN_MIN_THR readings above the
\* on-threshold.
EpisodeReach(d) ==
    CHOOSE m \in AboveMinutes(d) :
        Cardinality({x \in AboveMinutes(d) : x <= m}) = OVEN_MIN_THR

\* Candidate i has no other candidate within MIN_ALERT_GAP_MIN minutes: it
\* is an incident of its own.
AloneCandidate(i) ==
    \A j \in 1..Len(Cand) :
        j # i => \/ Cand[j].ts - Cand[i].ts > MIN_ALERT_GAP_MIN * 60
                 \/ Cand[i].ts - Cand[j].ts > MIN_ALERT_GAP_MIN * 60

\* C34: every returned alert has ts_start <= ts_end; an oven_left_on alert
\* starts at the first reading above the threshold of its episode and ends
\* at the reading where the streak reached OVEN_MIN_THR; the anomaly alert
\* of a single candidate has ts_start = ts_end.
C34_AlertTimeOrdering ==
    (pipe_pc = "done" /\ raised = "") =>
        /\ \A k \in 1..Len(returned) : IsoLeq(returned[k].ts_start, returned[k].ts_end)
        /\ \A k \in 1..Len(returned) :
             returned[k].label = "oven_left_on" =>
                 /\ returned[k].ts_start = isoformat(EpisodeFirst(df_input) * 60)
                 /\ returned[k].ts_end = isoformat(EpisodeReach(df_input) * 60)
        /\ \A i \in 1..Len(Cand) :
             AloneCandidate(i) =>
                 \E k \in 1..Len(returned) :
                     /\ returned[k].type = "anomaly"
                     /\ returned[k].ts_start = isoformat(Cand[i].ts)
                     /\ returned[k].ts_end = returned[k].ts_start

\* A run that returns an oven alert of an episode with a reading of 0 W
\* inside it, and the anomaly alert of a single candidate.
C34_Witness ==
    /\ pipe_pc = "done"
    /\ df_input.o_dip > 0
    /\ \E k \in 1..Len(returned) :
         /\ returned[k].label = "oven_left_on"
         /\ returned[k].ts_end = isoformat((df_input.o_start + OVEN_MIN_THR) * 60)
    /\ \E i \in 1..Len(Cand) : AloneCandidate(i)
    /\ \E k \in 1..Len(returned) :
         returned[k].type = "anomaly" /\ returned[k].ts_start = returned[k].ts_end


(***************************************************************************)
(***************************************************************************)
(* Properties of the input table of run_pipeline_from_df                   *)
(***************************************************************************)
\* C35: run_pipeline_from_df does not modify its input: no step of a call,
\* whether it returns or raises, changes the columns, the index or the
\* values of the caller's table; the derived columns go to df_local only.
C35_InputNotModified == [][df_input' = df_input]_vars

\* A call that returned, with the derived columns in df_local and not in
\* the caller's table.
C35_Witness ==
    /\ pipe_pc = "done"
    /\ returned # << >>
    /\ "current_room" \in df_local.columns
    /\ PresentCol("hall") \in df_local.columns
    /\ df_input.columns = REQUIRED_COLUMNS

(***************************************************************************)
(* Properties of the current-room trace of run_pipeline_from_df            *)
(***************************************************************************)
\* the rooms with debounced presence 1 at row i, in the order of ROOMS
ActiveAt(i) == SelectSeq(ROOMS, LAMBDA r : tr_present[r][i] = 1)

\* C31: at the first row with an active room after a row with no active
\* room, the trace takes the first active room in the order of ROOMS,
\* whatever room was occupied before the gap.
C31_NoStickinessAcrossGap ==
    \A i \in 2..Len(tr_rooms) :
        (tr_rooms[i - 1] = NoRoom /\ ActiveAt(i) # << >>) => tr_rooms[i] = ActiveAt(i)[1]

\* The kitchen was occupied before a gap; after it the hall and the kitchen
\* are both active and the trace takes the hall.
C31_Witness ==
    \E i \in 3..Len(tr_rooms) :
        /\ \E j \in 1..(i - 2) : tr_rooms[j] = "kitchen"
        /\ tr_rooms[i - 1] = NoRoom
        /\ tr_present["kitchen"][i] = 1
        /\ tr_present["hall"][i] = 1
        /\ tr_rooms[i] = "hall"

\* C32: current_room is null exactly at the rows where no room has
\* debounced presence 1, and is otherwise a room whose debounced presence
\* is 1 at that row; the trace leaves a room for a different one only at a
\* row where the presence of the room it leaves is 0.
C32_TraceInvariant ==
    /\ \A i \in 1..Len(tr_rooms) :
         /\ tr_rooms[i] = NoRoom <=> ActiveAt(i) = << >>
         /\ tr_rooms[i] # NoRoom => tr_present[tr_rooms[i]][i] = 1
    /\ \A i \in 2..Len(tr_rooms) :
         (tr_rooms[i - 1] # NoRoom /\ tr_rooms[i] # tr_rooms[i - 1]) =>
             tr_present[tr_rooms[i - 1]][i] = 0

\* A finished trace that stays in the kitchen while the hall becomes
\* active too, then moves to the hall when the kitchen empties.
C32_Witness ==
    /\ tr_pc = "done"
    /\ \E i \in 2..(Len(tr_rooms) - 1) :
         /\ tr_rooms[i - 1] = "kitchen"
         /\ tr_rooms[i] = "kitchen"
         /\ tr_present["hall"][i] = 1
         /\ tr_rooms[i + 1] = "hall"
         /\ tr_present["kitchen"][i + 1] = 0

(***************************************************************************)
(* Properties of IoTMLSystemLocal                                          *)
(***************************************************************************)
\* the windows range(0, n - 10, 5) makes of n training samples
WindowStarts(n) == {i \in 0..(n - 11) : i % 5 = 0}

\* C36: the mode changes from training to normal only in a step whose
\* _train_model returned True, and then the model is not null,
\* model_version has grown by one and state['mode'] is the mode; when
\* _train_model fails (fewer than 20 samples or fewer than 5 windows, and
\* then only) the mode, the model and model_version are unchanged and the
\* system stays in training mode.
C36_ModeSwitch ==
    [][/\ (sys_mode = "training" /\ sys_mode' = "normal") =>
            /\ last_train' = "ok"
            /\ sys_model' # None
            /\ model_version' = model_version + 1
            /\ sys_state'.mode = sys_mode'
       /\ (data_queue # << >> /\ data_queue' = Tail(data_queue)
           /\ last_train' \notin {"ok", "not_tried"}) =>
            /\ \/ Len(training_data') < 20
               \/ Cardinality(WindowStarts(Len(training_data'))) < 5
            /\ sys_mode' = sys_mode
            /\ sys_mode' = "training"
            /\ sys_model' = sys_model
            /\ model_version' = model_version
       /\ (data_queue # << >> /\ data_queue' = Tail(data_queue) /\ last_train' = "ok") =>
            /\ Len(training_data') >= 20
            /\ Cardinality(WindowStarts(Len(training_data'))) >= 5
      ]_vars

\* The system has just switched at its 31st training sample, after the
\* attempts from the 25th sample on failed for want of windows.
C36_Witness ==
    /\ sys_config.min_samples = 25
    /\ sys_mode = "normal"
    /\ sys_state.mode = "normal"
    /\ last_train = "ok"
    /\ Len(training_data) = 31
    /\ sys_model = 1
    /\ model_version = 1

\* the larger of two numbers
MaxOf(a, b) == IF a >= b THEN a ELSE b

\* the sample count or the duration trigger holds with n training samples
TriggerHolds(n) ==
    \/ n >= sys_config.min_samples
    \/ sys_state.training_start /\ sys_elapsed

\* C37: the processor takes the samples in the order they were put; in
\* training mode each is appended to training_data and training is
\* attempted at every sample once the sample count or the duration trigger
\* holds; the system is in normal mode by the sample at which
\* training_data holds max(min_samples, 31) samples, where training_data
\* no longer grows; a running system in training mode eventually switches
\* to normal mode (or is stopped).
C37_TrainingCompletes ==
    /\ [][/\ data_queue' # data_queue =>
               \/ data_queue' = Append(data_queue, sys_produced + 1)
               \/ data_queue # << >> /\ data_queue' = Tail(data_queue)
          /\ (data_queue # << >> /\ data_queue' = Tail(data_queue)
              /\ sys_mode = "training") =>
               /\ training_data' = Append(training_data, Head(data_queue))
               /\ TriggerHolds(Len(training_data'))
                      => last_train' \in {"ok", "few_samples", "few_windows"}
          /\ sys_mode = "normal" => Len(training_data') <= Len(training_data)
          ]_vars
    /\ [](Len(training_data) >= MaxOf(sys_config.min_samples, 31) => sys_mode = "normal")
    /\ ((sys_threads = "alive" /\ sys_mode = "training")
           ~> (sys_mode = "normal" \/ ~sys_running))

\* The default configuration, the duration not passed: the system switched
\* at its 50th sample and has buffered more samples since.
C37_Witness ==
    /\ sys_config.min_samples = 50
    /\ ~sys_elapsed
    /\ sys_mode = "normal"
    /\ Len(training_data) = 50
    /\ Len(sensor_buffer) > 60
    /\ sys_running

\* C38: the sensor buffer never holds more than 1000 entries after a
\* sample was handled; an append that makes it exceed 1000 leaves its 500
\* most recent entries in their order; no entry is reordered or
\* duplicated.
C38_BoundedBuffer ==
    /\ [](/\ Len(sensor_buffer) <= 1000
          /\ \A i \in 1..(Len(sensor_buffer) - 1) : sensor_buffer[i] < sensor_buffer[i + 1])
    /\ [][sensor_buffer' # sensor_buffer =>
             /\ data_queue # << >>
             /\ LET b == Append(sensor_buffer, Head(data_queue))
                IN  sensor_buffer' = IF Len(b) > 1000 THEN SubSeq(b, Len(b) - 499, Len(b))
                                     ELSE b
          ]_vars

\* The buffer just after the cut made by the 1001st sample.
C38_Witness ==
    /\ Len(sensor_buffer) = 500
    /\ sensor_buffer[1] = 502
    /\ sensor_buffer[500] = 1001

(***************************************************************************)
(* Properties of MQTTSimulator                                             *)
(***************************************************************************)
\* the number of published messages that were taken from the queue
Dequeued == Len(mq_published) - Len(message_queue)

\* both have the same number of levels and each level of the pattern is
\* '+' or the level of the topic
SameLevels(pattern, topic) ==
    /\ Len(split(pattern)) = Len(split(topic))
    /\ \A i \in 1..Len(split(pattern)) :
          split(pattern)[i] = << "+" >> \/ split(pattern)[i] = split(topic)[i]

\* the calls made for message k with the item of rank j of subscribers
CallsOf(k, j) ==
    {c \in 1..Len(mq_calls) :
         mq_calls[c].msg = k /\ mq_calls[c].pattern = subscribers[j].pattern}

\* C39: the queue holds the published messages that were not yet taken,
\* in publication order; each message taken was delivered once to the
\* callback of every subscribed pattern that has the levels of its topic
\* and to no other, the deliveries following the publication order; and
\* while the simulator runs every published message is eventually taken.
C39_Delivery ==
    /\ [](/\ Dequeued >= 0
          /\ \A i \in 1..Len(message_queue) :
                message_queue[i] = [id |-> Dequeued + i, topic |-> mq_published[Dequeued + i]]
          /\ \A k \in 1..Dequeued, j \in 1..Len(subscribers) :
                /\ Cardinality(CallsOf(k, j)) =
                       IF SameLevels(subscribers[j].pattern, mq_published[k]) THEN 1 ELSE 0
                /\ \A c \in CallsOf(k, j) : mq_calls[c].callback = subscribers[j].callback
          /\ \A c \in 1..Len(mq_calls) :
                /\ mq_calls[c].msg \in 1..Dequeued
                /\ \E j \in 1..Len(subscribers) : c \in CallsOf(mq_calls[c].msg, j)
                /\ c > 1 => mq_calls[c - 1].msg <= mq_calls[c].msg)
    /\ [][message_queue' # message_queue =>
             \/ Len(message_queue') = Len(message_queue) + 1
             \/ message_queue # << >> /\ message_queue' = Tail(message_queue)]_vars
    /\ \A k \in 1..MaxPublished :
          (mq_running /\ Len(mq_published) >= k) ~> (Dequeued >= k \/ ~mq_running)

\* Two messages were delivered by a running simulator, each to one of the
\* two subscribed patterns and not to the other.
C39_Witness ==
    /\ mq_running
    /\ Len(subscribers) = 2
    /\ Dequeued = 2
    /\ Len(mq_calls) = 2
    /\ mq_calls[1].msg = 1
    /\ mq_calls[2].msg = 2
    /\ mq_calls[1].pattern # mq_calls[2].pattern
    /\ mq_calls[1].callback # mq_calls[2].callback

=============================================================================
